---- MODULE Spec2Model ----
(***************************************************************************)
(* TinyClaw: the file-system message queue (incoming -> processing ->      *)
(* outgoing) and the sequential queue processor of src/src/queue-          *)
(* processor.ts (the variant with the webhook server is                    *)
(* src/unnamed/part_001; its processMessage/processQueue are the same      *)
(* steps).                                                                 *)
(*                                                                         *)
(* A queue file is named by the order in which it was enqueued: file f was *)
(* the f-th record written to incoming, so its mtime (which renameSync     *)
(* keeps) is ordered as f is, and its messageId is f.                      *)
(*                                                                         *)
(* Specifications:                                                         *)
(*   Spec, FairSpec  the processor, its timer, faults and restarts         *)
(*   RaceSpec        two processor instances polling one queue             *)
(*   ReplySpec       the reply text on its way into the Response Record    *)
(*   AdapterSpec     a channel adapter, its pending map and its files      *)
(*   InboundSpec     the adapter's message handler on every kind of message*)
(*   WebhookSpec     POST /webhook/message                                 *)
(*   StatusSpec      the webhook's callers, the queue and the status route *)
(*   FleetSpec,      two adapters and the processor, one adapter stopping  *)
(*   FairFleetSpec     at any point                                        *)
(*   SplitSpec       one call of splitMessage                              *)
(*   ShutdownSpec    the processor and its SIGINT/SIGTERM handler          *)
(*   SendSpec        the processor and `tinyclaw.sh send`                  *)
(*   DeliverSpec     the reply text from trim() to splitMessage            *)
(*   ServeSpec       the status route in the processor's process           *)
(*   ChannelSpec     caller-supplied channels and the Telegram scan        *)
(*   WhatsAppSpec    the WhatsApp adapter's readiness marker               *)
(* Each follows its own part of the state and leaves the rest as it is     *)
(* after start-up.                                                         *)
(***************************************************************************)
EXTENDS Integers, Sequences, FiniteSets, TLC

\* ------------------------------------------------------------------ bounds
MaxMsgs == 2        \* records enqueued in one run
MaxFaults == 2      \* file-system operations that throw in one run
MaxCrashes == 1     \* kills of the processor process in one run
MaxActs == 2        \* processQueue activations the runtime can hold at once
MaxAnswers == 2     \* Response Records two racing instances write per record

Ids == 1..MaxMsgs
Slots == 1..MaxActs
Channels == <<"telegram", "heartbeat", "whatsapp">>

\* the adapter that writes the i-th record: the channels take turns
ChannelOfId(i) == Channels[((i - 1) % Len(Channels)) + 1]

\* who sent the i-th record and what it says
Senders == <<"alice", "bob", "carol", "dave">>
Texts == <<"hello", "status?", "ping", "thanks", "bye">>
SenderOfId(i) == Senders[((i - 1) % Len(Senders)) + 1]
TextOfId(i) == Texts[((i - 1) % Len(Texts)) + 1]

\* ------------------------------------------------------------- the state
VARIABLES
    incoming,       \* files in .tinyclaw/queue/incoming
    processing,     \* files in .tinyclaw/queue/processing
    outgoing,       \* Response Records in .tinyclaw/queue/outgoing
    channelOf,      \* channel field of each enqueued record ("" = not enqueued)
    nextId,         \* the next record the adapters will enqueue
    resetFlag,      \* existence of .tinyclaw/reset_flag
    timerDue,       \* the setInterval timer has fired, callback not yet run
    proc,           \* the activations of processQueue: locals and position
    faults,         \* file-system operations that have thrown so far
    crashes,        \* kills of the processor so far
    \* history variables (observations only, never read by an action's guard)
    respCount,      \* Response Records written so far, per record
    invoked,        \* records whose AI invocation has started at least once
    faulted,        \* records for which a claim/read step threw before invocation
    orphans,        \* records that were in processing when the processor was killed
    polled,         \* a pass has completed since the processor (re)started
    unconsumed,     \* the flag was set and no fresh invocation has started since
    setSinceStart,  \* the flag was set after the latest invocation started
    \* the reply of one provider call on its way into a Response Record
    reply,          \* position in lines 221-227 and the text at each position
    \* one channel adapter, the queue files it exchanges with the processor,
    \* and the platform on its other side
    adapter,        \* the channel of the adapter: "telegram" or "whatsapp"
    now,            \* Date.now(), in minutes
    inbound,        \* platform messages the adapter has queued so far
    apc,            \* the adapter's position: idle, or inside writeFileSync
    stage,          \* where the queue file of each queued message is
    origin,         \* the chat each queued message came from
    pendingMessages,\* the adapter's Map: messageId -> reply target, timestamp
    ppc,            \* the processor's position on the record it holds
    sendLog,        \* replies handed to the platform, per messageId: chat ids
    lastScan,       \* what the latest checkOutgoingQueue did with each file
    event,          \* the latest platform message and what its handler did
    sawPartial,     \* directories in which a reader met an unfinished file
    \* the webhook server of the processor
    hook,           \* requests answered so far, the latest request and its
                    \* response, files written outside incoming
    \* the adapters side by side, each a process of its own
    fleet,          \* per adapter: running or stopped, the file it is writing,
                    \* its pending entries, its deliveries; and the pass of
                    \* the processor that serves them
    \* one call of the Telegram adapter's splitMessage
    split,          \* its arguments, its locals and position, and the cuts
                    \* it has made
    \* the command line of tinyclaw.sh
    cli,            \* `tinyclaw.sh send` commands: running now, finished
    \* the WhatsApp adapter process and its files in .tinyclaw/channels
    wa              \* its position, whether the library is still bringing
                    \* the client up, the readiness marker, the QR file, and
                    \* how the process ended last

procRest == <<incoming, processing, outgoing, channelOf, nextId,
              timerDue, proc, faults, crashes, respCount, invoked, faulted,
              orphans, polled, unconsumed, setSinceStart>>
procVars == <<procRest, resetFlag>>

\* the state of the parts of the program that are followed on their own
adapterState == <<adapter, now, inbound, apc, stage, origin, pendingMessages,
                  ppc, sendLog, lastScan, event, sawPartial>>
partVars == <<reply, adapterState, hook, fleet, split, cli, wa>>

vars == <<procVars, partVars>>

queueVars == <<incoming, processing, outgoing>>
adapterVars == <<channelOf, nextId>>
flagHist == <<unconsumed, setSinceStart>>
orderHist == <<invoked, faulted>>

\* ------------------------------------------------------- pure helpers
Apology == "Sorry, I encountered an error processing your request."
Reply == "reply"

\* processQueue: .sort((a, b) => a.time - b.time), time = mtimeMs
Mtime(f) == f

RECURSIVE SortByTimeDesc(_)
SortByTimeDesc(S) ==
    IF S = {} THEN <<>>
    ELSE LET f == CHOOSE x \in S : \A y \in S : Mtime(x) >= Mtime(y)
         IN <<f>> \o SortByTimeDesc(S \ {f})

RECURSIVE SortByTime(_)
SortByTime(S) ==
    IF S = {} THEN <<>>
    ELSE LET f == CHOOSE x \in S : \A y \in S : Mtime(x) <= Mtime(y)
         IN <<f>> \o SortByTime(S \ {f})

\* fs.renameSync(src, dst): one atomic move of the directory entry
RenameCopy(src, dst, f) == [from |-> src, to |-> dst \cup {f}]
RenameLose(src, dst, f) == [from |-> src \ {f}, to |-> dst]
Rename(src, dst, f) == [from |-> src \ {f}, to |-> dst \cup {f}]

\* continueFlag = shouldReset ? '' : '-c '   (TRUE = fresh context)
FreshContextStuck(shouldReset) == TRUE
FreshContext(shouldReset) == shouldReset

\* fs.unlinkSync(RESET_FLAG)
UnlinkFlagKept(flag) == flag
UnlinkFlag(flag) == FALSE

\* the inner catch: response = "Sorry, I encountered an error ..."
FallbackResponseRaw == Reply
FallbackResponse == Apology

\* responseFile: `${messageId}.json` for heartbeat, else
\* `${channel}_${messageId}_${Date.now()}.json`; two writes for one record are
\* an AI invocation apart, so their Date.now() differ: the n-th write gets n.
ResponseFile(channel, messageId, stamp) ==
    IF channel = "heartbeat" THEN <<"", messageId, 0>>
    ELSE <<channel, messageId, stamp>>

\* the Message Record in file f, as its adapter wrote it
MessageData(f) ==
    [channel |-> channelOf[f],
     sender |-> SenderOfId(f),
     message |-> TextOfId(f),
     messageId |-> f]

\* const { channel, sender, message, timestamp, messageId } = messageData;
\* responseData = { channel, sender, message: response,
\*                  originalMessage: message, timestamp, messageId }
ResponseDataEcho(f, response, stamp) ==
    LET m == MessageData(f)
    IN [file |-> ResponseFile(m.channel, m.messageId, stamp),
        channel |-> m.channel,
        sender |-> m.sender,
        message |-> response,
        originalMessage |-> response,
        messageId |-> m.messageId]
ResponseData(f, response, stamp) ==
    LET m == MessageData(f)
    IN [file |-> ResponseFile(m.channel, m.messageId, stamp),
        channel |-> m.channel,
        sender |-> m.sender,
        message |-> response,
        originalMessage |-> m.message,
        messageId |-> m.messageId]

\* fs.writeFileSync(responseFile, ...): creates or overwrites that name
WriteFile(dir, rec) == {r \in dir : r.file # rec.file} \cup {rec}

\* the event loop starts a timer callback only when the running callback and
\* every continuation it queued have finished; a pass never yields, since
\* execSync and the fs calls are synchronous and its awaits resume as
\* microtasks
CanDispatchAsync(p) == \E a \in Slots : p[a].pc = "idle"
CanDispatch(p) == \A a \in Slots : p[a].pc = "idle"

\* locals of an activation; fresh and failed record how the invocation of cur
\* was started and how it ended
IdleAct == [pc |-> "idle", files |-> <<>>, cur |-> 0, shouldReset |-> FALSE,
            fresh |-> FALSE, failed |-> FALSE, response |-> ""]

Live(a) == proc[a].pc # "idle"

\* the catch of processMessage: move back to incoming when the processing
\* copy exists; `back` is whether that renameSync succeeds
RequeueDrop(inc, prc, f) == [from |-> prc \ {f}, to |-> inc]
RequeueStay(inc, prc, f) == [from |-> prc, to |-> inc]
Requeue(inc, prc, f) == Rename(prc, inc, f)

\* the activation after processMessage returned: next file of the for loop,
\* or the end of processQueue
Advance(a) ==
    IF proc[a].files = <<>>
    THEN [proc EXCEPT ![a] = IdleAct]
    ELSE [proc EXCEPT ![a] = [IdleAct EXCEPT !.pc = "claim",
                                             !.files = proc[a].files]]

PassEnds(a) == proc[a].files = <<>>

\* ------------------------------------------------------- reply text
\* A text is a sequence of segments [c, n]: n >= 1 characters of the kind c
\* (a run of one character, or a literal of that length), no two adjacent
\* segments of one kind.
MaxPad == 2         \* whitespace characters around a reply
Slack == 2          \* how far the reply lengths reach around each limit

MaxResponse == 4000
KeptChars == 3900
TruncationMarker == <<[c |-> "\n", n |-> 2],
                      [c |-> "[Response truncated...]", n |-> 23]>>

IsSpace(c) == c \in {" ", "\n"}

RECURSIVE TextLen(_)
TextLen(t) == IF t = <<>> THEN 0 ELSE Head(t).n + TextLen(Tail(t))

\* a + b on strings
Concat(s, t) ==
    IF s = <<>> THEN t
    ELSE IF t = <<>> THEN s
    ELSE IF s[Len(s)].c = Head(t).c
         THEN SubSeq(s, 1, Len(s) - 1)
              \o <<[c |-> Head(t).c, n |-> s[Len(s)].n + Head(t).n]>>
              \o Tail(t)
         ELSE s \o t

\* s.substring(0, k)
RECURSIVE Substring0(_, _)
Substring0(t, k) ==
    IF t = <<>> \/ k <= 0 THEN <<>>
    ELSE IF Head(t).n <= k
         THEN <<Head(t)>> \o Substring0(Tail(t), k - Head(t).n)
         ELSE <<[c |-> Head(t).c, n |-> k]>>

\* s.substring(k)
RECURSIVE SubstringFrom(_, _)
SubstringFrom(t, k) ==
    IF t = <<>> \/ k <= 0 THEN t
    ELSE IF Head(t).n <= k
         THEN SubstringFrom(Tail(t), k - Head(t).n)
         ELSE <<[c |-> Head(t).c, n |-> Head(t).n - k]>> \o Tail(t)

\* String.prototype.trim(): whitespace off both ends
RECURSIVE TrimStart(_)
TrimStart(t) ==
    IF t # <<>> /\ IsSpace(Head(t).c) THEN TrimStart(Tail(t)) ELSE t

RECURSIVE TrimEnd(_)
TrimEnd(t) ==
    IF t # <<>> /\ IsSpace(t[Len(t)].c)
    THEN TrimEnd(SubSeq(t, 1, Len(t) - 1))
    ELSE t

Trim(t) == TrimEnd(TrimStart(t))

\* if (response.length > 4000)
\*     response = response.substring(0, 3900) + '\n\n[Response truncated...]'
TruncateNever(t) == t
TruncateKeepLimit(t) ==
    IF TextLen(t) > MaxResponse
    THEN Concat(Substring0(t, MaxResponse), TruncationMarker)
    ELSE t
Truncate(t) ==
    IF TextLen(t) > MaxResponse
    THEN Concat(Substring0(t, KeptChars), TruncationMarker)
    ELSE t

\* the replies a provider call returns: padding, a body whose length is
\* near 0, near 3900 or near 4000, an optional second word, padding
Run(c, n) == IF n = 0 THEN <<>> ELSE <<[c |-> c, n |-> n]>>
Pads == {Run(c, n) : c \in {" ", "\n"}, n \in 0..MaxPad}
BodyLens == (0..Slack) \cup ((KeptChars - Slack)..(KeptChars + Slack))
            \cup ((MaxResponse - Slack)..(MaxResponse + Slack))
Bodies == {Run("a", n) : n \in BodyLens}
          \cup {Concat(Run("a", n), <<[c |-> " ", n |-> 1], [c |-> "b", n |-> 1]>>)
                    : n \in BodyLens \ {0}}
Replies == {Concat(Concat(l, b), r) : l \in Pads, b \in Bodies, r \in Pads}

NoReply == [pc |-> "none", raw |-> <<>>, trimmed |-> <<>>, message |-> <<>>]

\* -------------------------------------------------- a channel adapter
MaxInbound == 2     \* platform messages the adapter queues in one run
MaxClock == 7       \* minutes one run lasts

StaleMinutes == 5
AIds == 1..MaxInbound
AdapterChannels == {"telegram", "whatsapp"}
Chats == {"chat1", "chat2"}

\* the text whose characters are those of w, in order
Chars(w) == [i \in 1..Len(w) |-> [c |-> w[i], n |-> 1]]

MessageBodies ==
    {<<>>,
     Run(" ", 2),
     Chars(<<"h", "i">>),
     Chars(<<"/", "r", "e", "s", "e", "t">>),
     Chars(<<"!", "r", "e", "s", "e", "t">>),
     Chars(<<"/", "R", "E", "S", "E", "T">>),
     Chars(<<" ", "!", "R", "e", "s", "e", "t", "\n">>),
     Chars(<<"r", "e", "s", "e", "t">>),
     Chars(<<"/", "r", "e", "s", "e", "t", " ", "n", "o", "w">>),
     Chars(<<"x", "/", "r", "e", "s", "e", "t">>)}

\* what the platform library hands to the message handler; Telegram hands
\* over no message of the bot itself, and one without text has no msg.text
PlatformMessages(ch) ==
    {m \in [fromMe : BOOLEAN, hasText : BOOLEAN, private : BOOLEAN,
            body : MessageBodies, chat : Chats] :
        ch = "telegram" => (~m.fromMe /\ (m.hasText <=> m.body # <<>>))}

\* the messages of an ordinary conversation
Hello(chat) == [fromMe |-> FALSE, hasText |-> TRUE, private |-> TRUE,
                body |-> Chars(<<"h", "i">>), chat |-> chat]
Conversation == {Hello(c) : c \in Chats}

\* the /i flag of the regular expression, on the letters it names
Lower(c) ==
    CASE c = "R" -> "r" [] c = "E" -> "e" [] c = "S" -> "s" [] c = "T" -> "t"
      [] OTHER -> c

\* text.trim().match(/^[!/]reset$/i)
IsReset(body) ==
    LET t == Trim(body)
    IN /\ Len(t) = 6
       /\ \A i \in 1..6 : t[i].n = 1
       /\ t[1].c \in {"!", "/"}
       /\ <<Lower(t[2].c), Lower(t[3].c), Lower(t[4].c), Lower(t[5].c),
            Lower(t[6].c)>> = <<"r", "e", "s", "e", "t">>

\* the early returns of the message handler.  Telegram: no text or blank
\* text, chat.type !== 'private'.  WhatsApp: message.fromMe, message.type
\* !== 'chat', no body or blank body, chat.isGroup.
Eligible(ch, m) ==
    /\ ch = "whatsapp" => (~m.fromMe /\ m.hasText)
    /\ m.body # <<>>
    /\ TextLen(Trim(m.body)) # 0
    /\ m.private

\* for (const [id, data] of pendingMessages.entries())
\*     if (data.timestamp < fiveMinutesAgo) pendingMessages.delete(id)
SweepOlder(entries, t) == {e \in entries : ~(e.timestamp < t)}
SweepNever(entries, t) == entries
Sweep(entries, t) == {e \in entries : ~(e.timestamp < t - StaleMinutes)}

\* checkOutgoingQueue on one file: the JSON does not parse (catch, the file
\* stays); the messageId has an entry (send, delete the entry, unlink); it
\* has none (unlink)
FileOutcomeKeep(readable, hasEntry) ==
    IF ~readable THEN "skip" ELSE IF hasEntry THEN "deliver" ELSE "skip"
FileOutcome(readable, hasEntry) ==
    IF ~readable THEN "skip" ELSE IF hasEntry THEN "deliver" ELSE "drop"

NoMessage == [fromMe |-> FALSE, hasText |-> FALSE, private |-> FALSE,
              body |-> <<>>, chat |-> "chat1"]
NoEvent == [msg |-> NoMessage, did |-> "none"]
NoScan == [delivered |-> {}, dropped |-> {}, skipped |-> {}]
AdapterIdle == [pc |-> "idle", id |-> 0]
ProcessorIdle == [pc |-> "idle", cur |-> 0]

\* ------------------------------------------------------ the webhook
MaxSegs == 3        \* runs of equal characters in a text given to splitMessage
MaxRun == 2         \* length of a run in a short text
MaxCut == 3         \* maxLength given with a short text
Near == 1           \* distance of a long run's length from the default limit
MaxPosts == 2       \* POST /webhook/message requests in one run

\* a JSON value of the request body: a missing field, a string, a number
Absent == [t |-> "absent", s |-> <<>>, n |-> 0]
Str(text) == [t |-> "string", s |-> text, n |-> 0]
Num(k) == [t |-> "number", s |-> <<>>, n |-> k]

\* !v
Falsy(v) == v.t = "absent" \/ (v.t = "string" /\ v.s = <<>>)
                \/ (v.t = "number" /\ v.n = 0)

\* !body.f || typeof body.f !== 'string'
InvalidField(v) == Falsy(v) \/ v.t # "string"

\* the bodies JSON.parse accepts, fields drawn from a few values of each kind
WebhookBodies ==
    [channel : {Absent, Str(<<>>), Num(7), Str(Chars(<<"w", "e", "b">>)),
                Str(Chars(<<"a", "/", "b">>)),
                Str(<<[c |-> ".", n |-> 2], [c |-> "/", n |-> 1],
                      [c |-> "x", n |-> 1]>>)},
     sender : {Num(7), Str(Chars(<<"b", "o", "b">>))},
     message : {Absent, Str(Chars(<<"h", "i">>))},
     messageId : {Absent, Str(<<>>), Str(Chars(<<"m", "1">>))}]

\* what JSON.parse makes of the request: an object, or it throws
WebhookRequests ==
    [json : {TRUE}, body : WebhookBodies]
    \cup {[json |-> FALSE,
           body |-> [channel |-> Absent, sender |-> Absent, message |-> Absent,
                     messageId |-> Absent]]}

\* body.messageId || `${body.channel}_${timestamp}_${randomBytes(4) hex}`;
\* the k-th request draws the k-th timestamp and random bytes
MessageIdOf(body, k) ==
    IF ~Falsy(body.messageId) THEN body.messageId
    ELSE Str(Concat(body.channel.s, <<[c |-> "_", n |-> 1], [c |-> "#", n |-> k]>>))

\* path.join(QUEUE_INCOMING, `${body.channel}_...json`): the directory the
\* name resolves to.  A "/" in the channel names a directory below incoming,
\* which does not exist; a leading "../" names the queue directory itself.
HasSlash(text) == \E i \in 1..Len(text) : text[i].c = "/"
DirOf(text) ==
    IF ~HasSlash(text) THEN "incoming"
    ELSE IF /\ Len(text) >= 2
            /\ text[1] = [c |-> ".", n |-> 2]
            /\ text[2] = [c |-> "/", n |-> 1]
            /\ ~HasSlash(SubSeq(text, 3, Len(text)))
         THEN "queue"
         ELSE "missing"

NoRequest == [json |-> FALSE,
              body |-> [channel |-> Absent, sender |-> Absent,
                        message |-> Absent, messageId |-> Absent]]
\* the bodies of a caller who fills every field in: a channel of its own,
\* the channel of an adapter or the heartbeat's, with or without a messageId
\* of its own
WebText == Chars(<<"w", "e", "b">>)
TelegramText == Chars(<<"t", "e", "l", "e", "g", "r", "a", "m">>)
HeartbeatText == Chars(<<"h", "e", "a", "r", "t", "b", "e", "a", "t">>)
Underscore == Chars(<<"_">>)
CallerIds == {Chars(<<"m", "1">>),
              Concat(TelegramText, Concat(Underscore, Chars(<<"1">>)))}
CallerBodies ==
    [channel : {Str(WebText), Str(TelegramText), Str(HeartbeatText)},
     sender : {Str(Chars(<<"b", "o", "b">>))},
     message : {Str(Chars(<<"h", "i">>))},
     messageId : {Absent} \cup {Str(id) : id \in CallerIds}]
CallerRequests == [json : {TRUE}, body : CallerBodies]

\* what processMessage writes to outgoing for the record r of the webhook
\* responseFile without its .json: the messageId alone for the heartbeat,
\* `${channel}_${messageId}_${Date.now()}` for every other channel
ResponseName(channel, messageId, stamp) ==
    IF channel = HeartbeatText THEN messageId
    ELSE Concat(channel, Concat(Underscore, Concat(messageId,
                <<[c |-> "_", n |-> 1], [c |-> "#", n |-> stamp]>>)))

ReplyText == Chars(<<"o", "k">>)
ResponseOf(r) ==
    [file |-> ResponseName(r.data.channel.s, r.data.messageId.s, r.file[2]),
     mtime |-> r.file[2],
     data |-> [channel |-> r.data.channel, sender |-> r.data.sender,
               message |-> Str(ReplyText),
               originalMessage |-> r.data.message,
               messageId |-> r.data.messageId]]

\* f.startsWith(prefix)
StartsWith(name, prefix) == Substring0(name, TextLen(prefix)) = prefix

\* the time a queue file was written
Stamp(r) == IF "mtime" \in DOMAIN r THEN r.mtime ELSE r.file[2]

\* files.sort((a, b) => a.time - b.time)[0]
Oldest(S) == CHOOSE r \in S : \A q \in S : Stamp(r) <= Stamp(q)

\* readdirSync lists outgoing by file name.  Among the Response Records of
\* one messageId the name that is the messageId alone comes first, then the
\* names by channel prefix, then by timestamp.
NameRank(r) ==
    IF r.data.channel.s = HeartbeatText THEN 0
    ELSE IF r.data.channel.s = TelegramText THEN 1
    ELSE 2
FirstFile(S) ==
    CHOOSE r \in S :
        \A q \in S : \/ NameRank(r) < NameRank(q)
                      \/ (NameRank(r) = NameRank(q) /\ Stamp(r) <= Stamp(q))

\* data.messageId === messageId, over the files of one directory
Matching(dir, messageId) ==
    {r \in dir : r.data.messageId.t = "string" /\ r.data.messageId.s = messageId}

\* getMessageStatus(messageId): outgoing, then processing, then incoming
GetMessageStatusIncomingFirst(inc, prc, out, messageId) ==
    IF Matching(inc, messageId) # {}
    THEN [status |-> "queued", data |-> {}]
    ELSE IF Matching(prc, messageId) # {}
    THEN [status |-> "processing", data |-> {}]
    ELSE IF Matching(out, messageId) # {}
    THEN [status |-> "completed", data |-> {FirstFile(Matching(out, messageId)).data}]
    ELSE [status |-> "not_found", data |-> {}]
GetMessageStatus(inc, prc, out, messageId) ==
    IF Matching(out, messageId) # {}
    THEN [status |-> "completed", data |-> {FirstFile(Matching(out, messageId)).data}]
    ELSE IF Matching(prc, messageId) # {}
    THEN [status |-> "processing", data |-> {}]
    ELSE IF Matching(inc, messageId) # {}
    THEN [status |-> "queued", data |-> {}]
    ELSE [status |-> "not_found", data |-> {}]

\* const statusCode = result.status === 'not_found' ? 404 : 200
StatusCode(result) == IF result.status = "not_found" THEN 404 ELSE 200

\* status, result, data: the response of the request in progress; accepted,
\* untouched, processed: the messageId of the latest accepted POST, whether
\* the queue is as that POST left it, the messageIds processed so far;
\* scanned: the Response Records an adapter's scan has read
NoHook == [n |-> 0, req |-> NoRequest, status |-> 0, messageId |-> Absent,
           outside |-> {}, query |-> <<>>, result |-> "", data |-> {},
           accepted |-> <<>>, untouched |-> FALSE, processed |-> {},
           scanned |-> {}]

\* ------------------------------------------------------------------ Init
\* ----------------------------------------------------- splitMessage
\* function splitMessage(text: string, maxLength = 4096)
DefaultMax == 4096

\* the texts of at most MaxSegs runs of letters, spaces and newlines, each
\* run with a length out of lens
TextsOf(lens) ==
    {t \in UNION {[1..k -> [c : {"a", " ", "\n"}, n : lens]] : k \in 0..MaxSegs} :
        \A i \in 1..(Len(t) - 1) : t[i].c # t[i + 1].c}

\* the calls followed: short texts with small limits, and texts whose runs
\* are about as long as the default limit with that limit
SplitInputs ==
    {[text |-> t, maxLength |-> m] : t \in TextsOf(1..MaxRun), m \in 1..MaxCut}
    \cup {[text |-> t, maxLength |-> DefaultMax]
             : t \in TextsOf((DefaultMax - Near)..(DefaultMax + Near))}

\* the index (from 0) of the first character of the i-th run of t
SegStart(t, i) == TextLen(SubSeq(t, 1, i - 1))

\* s.lastIndexOf(ch, from): the last index <= from that holds ch, or -1
LastIndexOf(t, ch, from) ==
    LET hits == {IF SegStart(t, i) + t[i].n - 1 <= from
                 THEN SegStart(t, i) + t[i].n - 1
                 ELSE from
                    : i \in {j \in 1..Len(t) : t[j].c = ch /\ SegStart(t, j) <= from}}
    IN IF hits = {} THEN -1
       ELSE CHOOSE h \in hits : \A g \in hits : g <= h

\* s.replace(/^\n/, '')
DropLeadingNewlines(t) ==
    IF t # <<>> /\ Head(t).c = "\n" THEN Tail(t) ELSE t
DropLeadingNewline(t) ==
    IF t # <<>> /\ Head(t).c = "\n" THEN SubstringFrom(t, 1) ELSE t

\* splitIndex of one turn of the loop: the newline, else the space, else
\* maxLength
SplitIndexHard(remaining, maxLength) == maxLength
SplitIndex(remaining, maxLength) ==
    LET atNewline == LastIndexOf(remaining, "\n", maxLength)
        atSpace == LastIndexOf(remaining, " ", maxLength)
    IN IF atNewline > 0 THEN atNewline
       ELSE IF atSpace > 0 THEN atSpace
       ELSE maxLength

NoSplit == [pc |-> "idle", text |-> <<>>, maxLength |-> 0, remaining |-> <<>>,
            chunks |-> <<>>, cuts |-> <<>>]

\* no `tinyclaw.sh send` has been typed
NoCli == [running |-> 0, finished |-> 0]

\* the WhatsApp adapter before it is started for the first time
NoWa == [pc |-> "down", loading |-> FALSE, ready |-> FALSE, qr |-> FALSE,
         starts |-> 0, kills |-> 0, last |-> "none"]

\* the adapters and the processor before any message
NoFleet ==
    [up |-> [c \in AdapterChannels |-> TRUE],
     writing |-> [c \in AdapterChannels |-> 0],
     pending |-> [c \in AdapterChannels |-> {}],
     delivered |-> [c \in AdapterChannels |-> {}],
     partial |-> {},
     files |-> <<>>,
     cur |-> 0]

InitFiles ==
    /\ incoming = {}
    /\ processing = {}
    /\ outgoing = {}
    /\ channelOf = [i \in Ids |-> ""]
    /\ nextId = 1
    /\ resetFlag = FALSE
    /\ timerDue = FALSE
    /\ proc = [a \in Slots |-> IdleAct]
    /\ crashes = 0
    /\ respCount = [i \in Ids |-> 0]
    /\ invoked = {}
    /\ faulted = {}
    /\ orphans = {}
    /\ polled = FALSE
    /\ unconsumed = FALSE
    /\ setSinceStart = FALSE

InitQueue ==
    /\ InitFiles
    /\ faults = 0

\* the adapter before it has started
InitAdapter ==
    /\ now = 0
    /\ inbound = 0
    /\ apc = AdapterIdle
    /\ stage = [i \in AIds |-> "none"]
    /\ origin = [i \in AIds |-> ""]
    /\ pendingMessages = {}
    /\ ppc = ProcessorIdle
    /\ sendLog = [i \in AIds |-> <<>>]
    /\ lastScan = NoScan
    /\ event = NoEvent
    /\ sawPartial = {}

InitParts ==
    /\ reply = NoReply
    /\ adapter = "telegram"
    /\ InitAdapter
    /\ hook = NoHook
    /\ fleet = NoFleet
    /\ cli = NoCli
    /\ wa = NoWa
    /\ split = NoSplit

Init ==
    /\ InitQueue
    /\ InitParts

\* ------------------------------------------------------------- adapters
\* an adapter writes a Message Record to incoming (telegram-client.ts 154-168,
\* queue-processor.ts 477-491)
Enqueue ==
    /\ nextId <= MaxMsgs
    /\ channelOf' = [channelOf EXCEPT ![nextId] = ChannelOfId(nextId)]
    /\ incoming' = incoming \cup {nextId}
    /\ nextId' = nextId + 1
    /\ UNCHANGED partVars
    /\ UNCHANGED <<processing, outgoing, resetFlag, timerDue, proc, faults,
                   crashes, respCount, orderHist, orphans, polled, flagHist>>

\* a reset command of an adapter, or `tinyclaw.sh reset`
SetReset ==
    /\ resetFlag' = TRUE
    /\ unconsumed' = TRUE
    /\ setSinceStart' = TRUE
    /\ UNCHANGED partVars
    /\ UNCHANGED <<queueVars, adapterVars, timerDue, proc, faults, crashes,
                   respCount, orderHist, orphans, polled>>

\* ------------------------------------------------------------ processor
\* setInterval(processQueue, 1000): the timer fires
Tick ==
    /\ ~timerDue
    /\ timerDue' = TRUE
    /\ UNCHANGED partVars
    /\ UNCHANGED <<queueVars, adapterVars, resetFlag, proc, faults, crashes,
                   respCount, orderHist, orphans, polled, flagHist>>

\* processQueue starts: readdirSync, statSync, sort
Dispatch ==
    /\ timerDue
    /\ CanDispatch(proc)
    /\ \E a \in Slots : proc[a].pc = "idle"
    /\ timerDue' = FALSE
    /\ LET a == CHOOSE s \in Slots : proc[s].pc = "idle" /\
                     \A t \in Slots : proc[t].pc = "idle" => s <= t
           files == SortByTime(incoming)
       IN IF files = <<>>
          THEN /\ proc' = proc
               /\ polled' = TRUE
          ELSE /\ proc' = [proc EXCEPT ![a] = [IdleAct EXCEPT !.pc = "claim",
                                                               !.files = files]]
               /\ polled' = polled
    /\ UNCHANGED partVars
    /\ UNCHANGED <<queueVars, adapterVars, resetFlag, faults, crashes,
                   respCount, orderHist, orphans, flagHist>>

\* the catch block of processMessage for file f, after a step threw:
\* if (fs.existsSync(processingFile)) renameSync(processingFile, messageFile);
\* `back` is whether that renameSync succeeds
Catch(a, f, back) ==
    /\ IF f \in processing /\ back
       THEN LET r == Requeue(incoming, processing, f)
            IN /\ processing' = r.from
               /\ incoming' = r.to
       ELSE UNCHANGED <<incoming, processing>>
    /\ proc' = Advance(a)
    /\ polled' = (polled \/ PassEnds(a))

\* a step of processMessage on the claimed file f throws: one fault, or two
\* when the rename back to incoming throws as well
Throws(a, f) ==
    \E back \in BOOLEAN :
        /\ faults + (IF back THEN 1 ELSE 2) <= MaxFaults
        /\ faults' = faults + (IF back THEN 1 ELSE 2)
        /\ Catch(a, f, back)

\* fs.renameSync(messageFile, processingFile)
Claim(a) ==
    /\ proc[a].pc = "claim"
    /\ LET f == Head(proc[a].files)
           me == [proc EXCEPT ![a].files = Tail(proc[a].files)]
       IN \/ /\ f \in incoming
             /\ LET r == Rename(incoming, processing, f)
                IN /\ incoming' = r.from
                   /\ processing' = r.to
             /\ proc' = [me EXCEPT ![a].pc = "read", ![a].cur = f]
             /\ UNCHANGED <<faults, polled, faulted>>
          \/ \* the rename throws: the file is gone, or the call fails
             /\ \/ /\ f \notin incoming
                   /\ UNCHANGED faults
                \/ /\ f \in incoming
                   /\ faults < MaxFaults
                   /\ faults' = faults + 1
             /\ IF f \in processing
                THEN LET r == Requeue(incoming, processing, f)
                     IN /\ processing' = r.from
                        /\ incoming' = r.to
                ELSE UNCHANGED <<incoming, processing>>
             /\ faulted' = IF f \in invoked THEN faulted ELSE faulted \cup {f}
             /\ proc' = IF me[a].files = <<>>
                        THEN [proc EXCEPT ![a] = IdleAct]
                        ELSE me
             /\ polled' = (polled \/ me[a].files = <<>>)
    /\ UNCHANGED partVars
    /\ UNCHANGED <<outgoing, adapterVars, resetFlag, timerDue, crashes,
                   respCount, invoked, orphans, flagHist>>

\* JSON.parse(fs.readFileSync(processingFile)); the call throws as well when
\* another process has moved the processing copy away
Read(a) ==
    /\ proc[a].pc = "read"
    /\ \/ /\ proc[a].cur \in processing
          /\ proc' = [proc EXCEPT ![a].pc = "check"]
          /\ UNCHANGED <<incoming, processing, faults, polled, faulted>>
       \/ /\ \/ Throws(a, proc[a].cur)
             \/ /\ proc[a].cur \notin processing
                /\ Catch(a, proc[a].cur, TRUE)
                /\ UNCHANGED faults
          /\ faulted' = IF proc[a].cur \in invoked THEN faulted
                        ELSE faulted \cup {proc[a].cur}
    /\ UNCHANGED partVars
    /\ UNCHANGED <<outgoing, adapterVars, resetFlag, timerDue, crashes,
                   respCount, invoked, orphans, flagHist>>

\* const shouldReset = fs.existsSync(RESET_FLAG); without the flag execSync
\* starts with '-c '
CheckReset(a) ==
    /\ proc[a].pc = "check"
    /\ IF resetFlag
       THEN /\ proc' = [proc EXCEPT ![a].pc = "clear", ![a].shouldReset = TRUE]
            /\ UNCHANGED <<invoked, setSinceStart>>
       ELSE /\ proc' = [proc EXCEPT ![a].pc = "invoke",
                                    ![a].shouldReset = FALSE,
                                    ![a].fresh = FreshContext(FALSE)]
            /\ invoked' = invoked \cup {proc[a].cur}
            /\ setSinceStart' = FALSE
    /\ UNCHANGED partVars
    /\ UNCHANGED <<queueVars, adapterVars, resetFlag, timerDue, faults, crashes,
                   respCount, faulted, orphans, polled, unconsumed>>

\* if (shouldReset) fs.unlinkSync(RESET_FLAG); then execSync starts without '-c '
ClearReset(a) ==
    /\ proc[a].pc = "clear"
    /\ resetFlag' = UnlinkFlag(resetFlag)
    /\ proc' = [proc EXCEPT ![a].pc = "invoke",
                            ![a].fresh = FreshContext(proc[a].shouldReset)]
    /\ invoked' = invoked \cup {proc[a].cur}
    /\ setSinceStart' = FALSE
    /\ unconsumed' = FALSE
    /\ UNCHANGED partVars
    /\ UNCHANGED <<queueVars, adapterVars, timerDue, faults, crashes, respCount,
                   faulted, orphans, polled>>

\* execSync returns the reply, or throws (non-zero exit, timeout, spawn error)
\* into the inner catch
InvokeReturn(a) ==
    /\ proc[a].pc = "invoke"
    /\ \E ok \in BOOLEAN :
        proc' = [proc EXCEPT ![a].pc = "write",
                             ![a].failed = ~ok,
                             ![a].response = IF ok THEN Reply
                                             ELSE FallbackResponse]
    /\ UNCHANGED partVars
    /\ UNCHANGED <<queueVars, adapterVars, resetFlag, timerDue, faults, crashes,
                   respCount, orderHist, orphans, polled, flagHist>>

\* fs.writeFileSync(responseFile, JSON.stringify(responseData))
WriteResponse(a) ==
    /\ proc[a].pc = "write"
    /\ LET f == proc[a].cur
       IN \/ /\ outgoing' = WriteFile(outgoing,
                                ResponseData(f, proc[a].response, respCount[f] + 1))
             /\ respCount' = [respCount EXCEPT ![f] = @ + 1]
             /\ proc' = [proc EXCEPT ![a].pc = "unlink"]
             /\ UNCHANGED <<incoming, processing, faults, polled>>
          \/ /\ Throws(a, f)
             /\ UNCHANGED <<outgoing, respCount>>
    /\ UNCHANGED partVars
    /\ UNCHANGED <<adapterVars, resetFlag, timerDue, crashes, orderHist,
                   orphans, flagHist>>

\* fs.unlinkSync(processingFile); the call throws as well when another
\* process has moved the processing copy away
UnlinkProcessing(a) ==
    /\ proc[a].pc = "unlink"
    /\ LET f == proc[a].cur
       IN \/ /\ f \in processing
             /\ processing' = processing \ {f}
             /\ proc' = Advance(a)
             /\ polled' = (polled \/ PassEnds(a))
             /\ UNCHANGED <<incoming, faults>>
          \/ Throws(a, f)
          \/ /\ f \notin processing
             /\ Catch(a, f, TRUE)
             /\ UNCHANGED faults
    /\ UNCHANGED partVars
    /\ UNCHANGED <<outgoing, adapterVars, resetFlag, timerDue, crashes,
                   respCount, orderHist, orphans, flagHist>>

\* the processor process is killed at any point and started again: its
\* activations and its timer are gone, the files stay; the start-up code
\* (298-302) only logs and arms the timer
Crash ==
    /\ crashes < MaxCrashes
    /\ crashes' = crashes + 1
    /\ proc' = [a \in Slots |-> IdleAct]
    /\ timerDue' = FALSE
    /\ orphans' = orphans \cup processing
    /\ polled' = FALSE
    /\ UNCHANGED partVars
    /\ UNCHANGED <<queueVars, adapterVars, resetFlag, faults, respCount,
                   orderHist, flagHist>>

Step(a) ==
    \/ Claim(a)
    \/ Read(a)
    \/ CheckReset(a)
    \/ ClearReset(a)
    \/ InvokeReturn(a)
    \/ WriteResponse(a)
    \/ UnlinkProcessing(a)

NextNoCrash ==
    \/ Enqueue
    \/ SetReset
    \/ Tick
    \/ Dispatch
    \/ \E a \in Slots : Step(a)

Next ==
    \/ NextNoCrash
    \/ Crash

Spec == Init /\ [][Next]_vars

\* the processor keeps running: the timer keeps firing, the event loop runs
\* the callback when the thread is free, synchronous code proceeds and every
\* execSync returns
FairSpec ==
    /\ Init
    /\ [][NextNoCrash]_vars
    /\ WF_vars(Tick)
    /\ WF_vars(Dispatch)
    /\ \A a \in Slots : WF_vars(Step(a))

AllIdle == \A a \in Slots : proc[a].pc = "idle"
Enqueued == 1..(nextId - 1)
HasResponse(f) == \E r \in outgoing : r.messageId = f


\* ------------------------------------------------------------- C1
\* C1: at most one AI provider invocation is in flight at any instant,
\* however many records are pending and whenever the poll timer fires.
OneInvocationInFlight ==
    Cardinality({a \in Slots : proc[a].pc = "invoke"}) <= 1

\* an invocation is in flight, the timer has fired during the pass and
\* further records wait behind it
TimerFiredDuringInvocation ==
    \E a \in Slots : /\ proc[a].pc = "invoke"
                     /\ timerDue
                     /\ proc[a].files # <<>>
                     /\ incoming # {}

\* ------------------------------------------------------------- C2
\* C2 as stated: the first AI invocations of the records start in enqueue
\* order (no record is first invoked after a record enqueued later).
InvocationsInEnqueueOrder ==
    [][\A f \in invoked' \ invoked : \A g \in invoked : g < f]_vars

\* C2 amended: the first AI invocations start in enqueue order, except that a
\* record whose claim or read threw before its invocation is first invoked
\* on a later pass, possibly after records enqueued later.
InvocationsInOrderUnlessFaulted ==
    [][\A f \in invoked' \ invoked :
          \A g \in invoked : g > f => f \in faulted]_vars

\* all records were invoked with no fault at all: the first one is answered
\* and the last-enqueued one is being invoked now
InvokedInOrder ==
    /\ invoked = Ids
    /\ faults = 0
    /\ \E a \in Slots : /\ proc[a].pc = "invoke"
                        /\ proc[a].cur = MaxMsgs
                        /\ respCount[1] = 1

\* ------------------------------------------------------------- C3
\* C3: every record gets exactly one Response Record over the whole run; no
\* record is answered twice.
AnsweredAtMostOnce ==
    \A f \in Ids : respCount[f] <= 1

\* ------------------------------------------------------------- C4
\* C4 as stated: each record is in at most one of incoming, processing and
\* outgoing.
InAtMostOneStage ==
    \A f \in Ids :
        Cardinality({st \in {"in", "proc", "out"} :
                        \/ st = "in" /\ f \in incoming
                        \/ st = "proc" /\ f \in processing
                        \/ st = "out" /\ HasResponse(f)}) <= 1

\* C4 amended: each record is in at most one of incoming and processing; its
\* Response Record coexists with the processing copy from the write of the
\* response until the processing copy is deleted, and otherwise only after a
\* crash or a failed queue operation; it coexists with the incoming copy only
\* after a failed queue operation.
StageExclusion ==
    /\ incoming \cap processing = {}
    /\ \A f \in Ids :
          HasResponse(f) =>
              /\ f \in incoming => faults > 0
              /\ f \in processing =>
                    \/ \E a \in Slots : proc[a].pc = "unlink" /\ proc[a].cur = f
                    \/ faults > 0
                    \/ crashes > 0

\* the Response Record is written and the processing copy not yet deleted
ResponseBesideProcessingCopy ==
    \E a \in Slots : /\ proc[a].pc = "unlink"
                     /\ proc[a].cur \in processing
                     /\ HasResponse(proc[a].cur)
                     /\ faults = 0 /\ crashes = 0

\* ------------------------------------------------------------- C5
\* C5: a record left in processing by a crash is moved back to incoming by
\* the restarted processor: once the restarted processor has completed a
\* poll and is idle, no such record is left in processing.
OrphanRequeuedAfterRestart ==
    (polled /\ AllIdle) => orphans \cap processing = {}

\* ------------------------------------------------------------- C6
\* C6: a record never silently vanishes: every enqueued record is in
\* incoming or in processing, or its Response Record has been written (so
\* the processing copy is removed only after the response was written),
\* whatever step the processor is killed at.
NeverVanishes ==
    \A f \in Enqueued : f \in incoming \/ f \in processing \/ respCount[f] > 0

\* after a crash and a completed poll of the restarted processor the record
\* that was being handled is still discoverable, in processing
OrphanStillInProcessing ==
    /\ crashes > 0
    /\ polled
    /\ \E f \in orphans : f \in processing /\ respCount[f] = 0

FailedInvocationNeverRequeued ==
    [][\A a \in Slots :
          (proc[a].pc \in {"write", "unlink"} /\ proc[a].failed) =>
              proc[a].cur \notin incoming']_vars

\* C8 amended: when the AI invocation fails the response the processor goes
\* on to write is the apology text under the record's messageId and file
\* name, and the processing copy is then deleted; the record returns to
\* incoming only if writing the Response Record or deleting the processing
\* copy itself throws.
ProviderFailureAnswered ==
    /\ [](\A a \in Slots :
            (proc[a].pc \in {"write", "unlink"} /\ proc[a].failed) =>
                proc[a].response = Apology)
    /\ [][\A a \in Slots :
            (proc[a].pc \in {"write", "unlink"} /\ proc[a].failed) =>
                LET f == proc[a].cur
                IN /\ (proc[a].pc = "write" /\ proc'[a].pc = "unlink") =>
                          \E r \in outgoing' :
                              /\ r.messageId = f
                              /\ r.message = Apology
                              /\ r.file = ResponseFile(channelOf[f], f,
                                                       respCount'[f])
                   /\ f \in incoming' => faults' > faults
                   /\ (proc[a].pc = "unlink" /\ faults' = faults
                         /\ crashes' = crashes /\ proc'[a].pc # "unlink") =>
                          f \notin processing' /\ f \notin incoming']_vars

\* the apology was written for a record and its processing copy is deleted
ApologyDelivered ==
    \E r \in outgoing : /\ r.message = Apology
                        /\ r.messageId \notin processing
                        /\ r.messageId \notin incoming

\* ------------------------------------------------------------- C9
\* C9 as stated: whenever a queue step throws after the claim, the record is
\* moved from processing back to incoming.
FaultAlwaysRequeues ==
    [][\A a \in Slots :
          (proc[a].pc \in {"read", "write", "unlink"} /\ faults' > faults) =>
              proc[a].cur \in incoming']_vars

\* C9 amended: whenever reading/parsing, writing the response or deleting
\* the processing copy throws, the record is moved from processing back to
\* incoming, unless that rename throws as well, and then it stays in
\* processing; a record in incoming is claimed again on a later poll while
\* the processor keeps running and its invocations return.
FaultRequeuesUnlessRenameFails ==
    /\ [][\A a \in Slots :
            proc[a].pc \in {"read", "write", "unlink"} =>
                LET f == proc[a].cur
                IN /\ faults' = faults + 1 =>
                          f \in incoming' /\ f \notin processing'
                   /\ faults' = faults + 2 =>
                          f \in processing' /\ f \notin incoming']_vars
    /\ \A f \in Ids : (f \in incoming) ~> (f \in processing)

\* a record answered once, requeued because deleting its processing copy
\* threw, and claimed again
RequeuedAndClaimedAgain ==
    \E a \in Slots : /\ proc[a].pc = "read"
                     /\ respCount[proc[a].cur] > 0
                     /\ faults = 1

\* ------------------------------------------------------------- C10
\* C10: with the timer firing, every invocation returning and no crash,
\* every record written to incoming eventually has a Response Record.
EveryRecordAnswered ==
    \A f \in Ids : (f \in incoming) ~> (respCount[f] > 0)

\* a record left in processing that no activation is handling
Stranded(f) == f \in processing /\ \A a \in Slots : proc[a].cur # f

\* C10 amended: with the timer firing, every invocation returning, no crash
\* and only finitely many failing queue operations, every record written to
\* incoming eventually has a Response Record, unless it was left in
\* processing because the rename back to incoming threw.
EveryRecordAnsweredOrStranded ==
    \A f \in Ids : (f \in incoming) ~> (respCount[f] > 0 \/ Stranded(f))

\* every record was answered although a queue operation failed on the way
AllAnsweredAfterFault ==
    /\ \A f \in Ids : respCount[f] > 0
    /\ faults > 0
    /\ incoming = {} /\ processing = {}

\* ------------------------------------------------------------- C23
\* the AI invocation of record g starts in this step
InvocationStarts(g) ==
    \E a \in Slots : /\ proc[a].pc # "invoke"
                     /\ proc'[a].pc = "invoke"
                     /\ proc'[a].cur = g

Completed(f) ==
    /\ f \in Enqueued
    /\ f \notin incoming \cup processing
    /\ respCount[f] > 0

\* C29: each record goes queued -> claimed -> {completed | requeued}: it
\* enters processing only out of incoming; a Response Record is written only
\* for a record that is in processing; it leaves processing only deleted
\* after its response was written, or renamed back to incoming; and a
\* completed record never enters incoming again.
RecordLifeCycle ==
    [][\A f \in Ids :
          /\ (f \notin processing /\ f \in processing') =>
                 (f \in incoming /\ f \notin incoming')
          /\ respCount'[f] > respCount[f] =>
                 (f \in processing /\ f \in processing')
          /\ (f \in processing /\ f \notin processing') =>
                 \/ f \in incoming'
                 \/ respCount[f] > 0
          /\ Completed(f) => Completed(f)']_vars

\* a record was requeued after a failed queue step, claimed again and
\* completed
CompletedAfterRequeue ==
    \E f \in Ids : /\ Completed(f)
                   /\ f \in faulted
                   /\ AllIdle

\* ------------------------------------------------------------- C31
\* no kill so far, and no rename back to incoming has failed: a failed one
\* costs two faults and leaves its record in processing with no activation
NoCrashNoFailedRequeue ==
    /\ crashes = 0
    /\ faults <= 1 \/ \A f \in Ids : ~Stranded(f)

\* C31: absent crashes and failed requeues, processing holds at most one
\* record at any instant, and holds none unless processMessage is running
\* on a claimed record.
OneRecordInProcessing ==
    NoCrashNoFailedRequeue =>
        /\ Cardinality(processing) <= 1
        /\ processing # {} =>
              \E a \in Slots : /\ proc[a].pc \in {"read", "check", "clear",
                                                  "invoke", "write", "unlink"}
                               /\ proc[a].cur \in processing

\* an invocation runs on the one record in processing while another record
\* waits in incoming, after a requeue that succeeded
OneClaimedOneWaiting ==
    /\ crashes = 0 /\ faults = 1
    /\ Cardinality(processing) = 1
    /\ incoming # {}
    /\ \E a \in Slots : proc[a].pc = "invoke" /\ proc[a].cur \in processing

\* ------------------------------------------------------------- C37
\* activation a has started the provider call for its record
CallStarted(a) == proc[a].pc \in {"invoke", "write", "unlink"}

\* C37: the flag is cleared before a fresh-context invocation starts and the
\* processor never puts it back: whether that invocation fails or its record
\* is requeued after it, the flag is present only when a reset command came
\* after the latest clearing, and without such a command the next invocation
\* to start, the retry of the same record included, continues the context.
ResetConsumedForGood ==
    /\ [](/\ resetFlag <=> unconsumed
          /\ \A a \in Slots :
                (CallStarted(a) /\ proc[a].fresh /\ ~setSinceStart) => ~resetFlag)
    /\ [][/\ (~resetFlag /\ resetFlag') => (proc' = proc /\ setSinceStart')
          /\ \A a \in Slots :
                (~CallStarted(a) /\ CallStarted(a)' /\ ~setSinceStart)
                    => ~proc'[a].fresh]_vars

\* a fresh-context invocation has failed: the apology is about to be written
\* and the flag is gone
FreshInvocationFailedFlagGone ==
    \E a \in Slots :
        /\ proc[a].pc = "write"
        /\ proc[a].fresh /\ proc[a].failed
        /\ ~resetFlag /\ ~unconsumed

\* =================================================== graceful shutdown
\* process.on('SIGINT' / 'SIGTERM'): log and process.exit(0).  The handler is
\* an event-loop callback: it runs when no pass is under way (a signal that
\* arrives during execSync waits for the pass to end).  The processor is
\* then started again.
Shutdown ==
    /\ CanDispatch(proc)
    /\ crashes < MaxCrashes
    /\ crashes' = crashes + 1
    /\ proc' = [a \in Slots |-> IdleAct]
    /\ timerDue' = FALSE
    /\ polled' = FALSE
    /\ UNCHANGED partVars
    /\ UNCHANGED <<queueVars, adapterVars, resetFlag, faults, respCount,
                   orderHist, orphans, flagHist>>

ShutdownNext ==
    \/ NextNoCrash
    \/ Shutdown

ShutdownSpec == Init /\ [][ShutdownNext]_vars

\* ------------------------------------------------------------- C28
\* C28: when the processor exits on SIGINT or SIGTERM, every record that has
\* no Response Record yet is in incoming, the stage a restarted processor
\* claims from.
ShutdownLeavesRecoverable ==
    [][Shutdown => \A f \in Enqueued : respCount[f] = 0 => f \in incoming']_vars

\* ============================== two processor instances on one queue
\* Each activation slot is a processor process of its own, with its own
\* timer and event loop; both poll the same three directories.
\* setInterval(processQueue, 1000) of instance a fires and processQueue
\* lists incoming
DispatchInstance(a) ==
    /\ proc[a].pc = "idle"
    /\ incoming # {}
    /\ \A f \in Ids : respCount[f] < MaxAnswers
    /\ proc' = [proc EXCEPT ![a] = [IdleAct EXCEPT !.pc = "claim",
                                                   !.files = SortByTime(incoming)]]
    /\ UNCHANGED partVars
    /\ UNCHANGED <<queueVars, adapterVars, resetFlag, timerDue, faults, crashes,
                   respCount, orderHist, orphans, polled, flagHist>>

\* no call fails but for what the other instance does to the files, and
\* nobody asks for a reset
RaceInit ==
    /\ InitFiles
    /\ faults = MaxFaults
    /\ InitParts

RaceNext ==
    \/ Enqueue
    \/ \E a \in Slots : DispatchInstance(a)
    \/ \E a \in Slots : Claim(a)
    \/ \E a \in Slots : Read(a)
    \/ \E a \in Slots : CheckReset(a)
    \/ \E a \in Slots : InvokeReturn(a)
    \/ \E a \in Slots : WriteResponse(a)
    \/ \E a \in Slots : UnlinkProcessing(a)

RaceSpec == RaceInit /\ [][RaceNext]_vars

\* ------------------------------------------------------------- C14
\* C14 as stated: an instance whose claim fails because the record is no
\* longer in incoming moves nothing: the winner's processing copy stays
\* where it is, and the instance starts no invocation for that record.
LoserLeavesWinnersCopy ==
    [][\A a \in Slots :
          (/\ proc[a].pc = "claim"
           /\ Head(proc[a].files) \notin incoming
           /\ proc'[a] # proc[a]) =>
              /\ processing' = processing
              /\ incoming' = incoming
              /\ proc'[a].pc \in {"idle", "claim"}]_vars

\* ======================================= an adapter and its queue files
\* One adapter (telegram-client.ts; the WhatsApp client of queue-processor.ts
\* 433-551 has the same two handlers) between the platform and the queue.
\* The processor is followed only through what it does to the adapter's
\* files: claim, read, write the response, unlink.
AdapterInit ==
    /\ InitQueue
    /\ reply = NoReply
    /\ adapter = "telegram"
    /\ InitAdapter
    /\ hook = NoHook
    /\ fleet = NoFleet
    /\ cli = NoCli
    /\ wa = NoWa
    /\ split = NoSplit

InboundInit ==
    /\ InitQueue
    /\ reply = NoReply
    /\ adapter \in AdapterChannels
    /\ InitAdapter
    /\ hook = NoHook
    /\ fleet = NoFleet
    /\ cli = NoCli
    /\ wa = NoWa
    /\ split = NoSplit

HasEntry(i) == \E e \in pendingMessages : e.id = i
EntryOf(i) == CHOOSE e \in pendingMessages : e.id = i

\* bot.sendMessage(pending.chatId, ...) / pending.message.reply(...)
ReplyTargetLatest(e) == event.msg.chat
ReplyTarget(e) == e.chatId

\* fs.writeFileSync(file, data) opens (creates, empties) the file and then
\* writes into it: until it returns the file is there and not all of its
\* content is
Unfinished(i) == apc.pc = "writing" /\ apc.id = i

\* bot.on('message', ...) / client.on('message_create', ...) for the
\* platform message m, up to the point where writeFileSync has opened the
\* queue file.  typing: `await sendChatAction` / `await sendStateTyping`
\* resolves; answered: the `await` of the reset confirmation resolves.
OnMessage(m, typing, answered) ==
    /\ apc.pc = "idle"
    /\ IF ~Eligible(adapter, m)
       THEN /\ event' = [msg |-> m, did |-> "skipped"]
            /\ UNCHANGED <<resetFlag, inbound, apc, stage, origin>>
       ELSE IF IsReset(m.body)
       THEN /\ resetFlag' = TRUE
            /\ event' = [msg |-> m,
                         did |-> IF answered THEN "reset" ELSE "reset unanswered"]
            /\ UNCHANGED <<inbound, apc, stage, origin>>
       ELSE IF ~typing
       THEN /\ event' = [msg |-> m, did |-> "typing failed"]
            /\ UNCHANGED <<resetFlag, inbound, apc, stage, origin>>
       ELSE /\ inbound < MaxInbound
            /\ inbound' = inbound + 1
            /\ stage' = [stage EXCEPT ![inbound + 1] = "incoming"]
            /\ origin' = [origin EXCEPT ![inbound + 1] = m.chat]
            /\ apc' = [pc |-> "writing", id |-> inbound + 1]
            /\ event' = [msg |-> m, did |-> "queued"]
            /\ UNCHANGED resetFlag
    /\ UNCHANGED <<procRest, reply, hook, fleet, split, cli, wa, adapter, now, pendingMessages, ppc,
                   sendLog, lastScan, sawPartial>>

\* the messages of a conversation arrive, the platform answers every call
Inbound ==
    \E m \in Conversation : OnMessage(m, TRUE, TRUE)

\* any message the platform can hand over arrives
InboundAny ==
    \E m \in PlatformMessages(adapter), typing \in BOOLEAN,
       answered \in BOOLEAN :
        OnMessage(m, typing, answered)

\* writeFileSync returns; pendingMessages.set(...); the sweep of entries
\* older than five minutes
FinishWrite ==
    /\ apc.pc = "writing"
    /\ pendingMessages' =
          Sweep({e \in pendingMessages : e.id # apc.id}
                \cup {[id |-> apc.id, chatId |-> origin[apc.id],
                       timestamp |-> now]}, now)
    /\ apc' = AdapterIdle
    /\ UNCHANGED <<procVars, reply, hook, fleet, split, cli, wa, adapter, now, inbound, stage, origin, ppc,
                   sendLog, lastScan, event, sawPartial>>

\* checkOutgoingQueue: every file of outgoing with the adapter's prefix
CheckOutgoingQueue ==
    /\ apc.pc = "idle"
    /\ LET files == {i \in AIds : stage[i] \in {"responding", "outgoing"}}
           outcome == [i \in files |->
                          FileOutcome(stage[i] = "outgoing", HasEntry(i))]
       IN /\ files # {}
          /\ sendLog' = [i \in AIds |->
                IF i \in files /\ outcome[i] = "deliver"
                THEN Append(sendLog[i], ReplyTarget(EntryOf(i)))
                ELSE sendLog[i]]
          /\ pendingMessages' =
                {e \in pendingMessages :
                    ~(e.id \in files /\ outcome[e.id] = "deliver")}
          /\ stage' = [i \in AIds |->
                IF i \in files /\ outcome[i] \in {"deliver", "drop"}
                THEN "removed" ELSE stage[i]]
          /\ lastScan' =
                [delivered |-> {i \in files : outcome[i] = "deliver"},
                 dropped |-> {i \in files : outcome[i] = "drop"},
                 skipped |-> {i \in files : outcome[i] = "skip"}]
          /\ sawPartial' = IF \E i \in files : stage[i] = "responding"
                           THEN sawPartial \cup {"outgoing"}
                           ELSE sawPartial
    /\ UNCHANGED <<procVars, reply, hook, fleet, split, cli, wa, adapter, now, inbound, apc, origin, ppc,
                   event>>

\* processQueue/processMessage: renameSync of the oldest file of incoming
PClaim ==
    /\ ppc.pc = "idle"
    /\ \E i \in AIds :
        /\ stage[i] = "incoming"
        /\ \A j \in AIds : stage[j] = "incoming" => i <= j
        /\ stage' = [stage EXCEPT ![i] = "processing"]
        /\ ppc' = [pc |-> "read", cur |-> i]
    /\ UNCHANGED <<procVars, reply, hook, fleet, split, cli, wa, adapter, now, inbound, apc, origin,
                   pendingMessages, sendLog, lastScan, event, sawPartial>>

\* JSON.parse(fs.readFileSync(processingFile)): of an unfinished file it
\* throws, and the catch moves the file back to incoming
PRead ==
    /\ ppc.pc = "read"
    /\ IF Unfinished(ppc.cur)
       THEN /\ stage' = [stage EXCEPT ![ppc.cur] = "incoming"]
            /\ ppc' = ProcessorIdle
            /\ sawPartial' = sawPartial \cup {"incoming"}
       ELSE /\ ppc' = [ppc EXCEPT !.pc = "invoke"]
            /\ UNCHANGED <<stage, sawPartial>>
    /\ UNCHANGED <<procVars, reply, hook, fleet, split, cli, wa, adapter, now, inbound, apc, origin,
                   pendingMessages, sendLog, lastScan, event>>

\* the provider call returns and writeFileSync(responseFile) opens the file
PRespond ==
    /\ ppc.pc = "invoke"
    /\ stage' = [stage EXCEPT ![ppc.cur] = "responding"]
    /\ ppc' = [ppc EXCEPT !.pc = "fill"]
    /\ UNCHANGED <<procVars, reply, hook, fleet, split, cli, wa, adapter, now, inbound, apc, origin,
                   pendingMessages, sendLog, lastScan, event, sawPartial>>

\* writeFileSync(responseFile) returns; unlinkSync(processingFile)
PFill ==
    /\ ppc.pc = "fill"
    /\ stage' = [stage EXCEPT ![ppc.cur] =
                    IF @ = "responding" THEN "outgoing" ELSE @]
    /\ ppc' = ProcessorIdle
    /\ UNCHANGED <<procVars, reply, hook, fleet, split, cli, wa, adapter, now, inbound, apc, origin,
                   pendingMessages, sendLog, lastScan, event, sawPartial>>

\* a minute passes
Tock ==
    /\ now < MaxClock
    /\ now' = now + 1
    /\ UNCHANGED <<procVars, reply, hook, fleet, split, cli, wa, adapter, inbound, apc, stage, origin,
                   pendingMessages, ppc, sendLog, lastScan, event, sawPartial>>

AdapterNext ==
    \/ Inbound
    \/ FinishWrite
    \/ CheckOutgoingQueue
    \/ PClaim
    \/ PRead
    \/ PRespond
    \/ PFill
    \/ Tock

AdapterSpec == AdapterInit /\ [][AdapterNext]_vars

\* the message handler alone, on every message the platform can hand over
InboundNext ==
    \/ InboundAny
    \/ FinishWrite

InboundSpec == InboundInit /\ [][InboundNext]_vars

\* ================================================ the webhook ingress
\* POST /webhook/message of src/unnamed/part_001 on its own.  The files of
\* incoming are here the records the webhook wrote: [file, data].
WebhookInit ==
    /\ InitQueue
    /\ reply = NoReply
    /\ adapter = "telegram"
    /\ InitAdapter
    /\ hook = NoHook
    /\ fleet = NoFleet
    /\ cli = NoCli
    /\ wa = NoWa
    /\ split = NoSplit

\* the request handler: JSON.parse, handleWebhookMessage, sendJson; whatever
\* throws inside the try is answered 400
PostMessage(req) ==
    /\ hook.n < MaxPosts
    /\ LET k == hook.n + 1
           body == req.body
           rejected == \/ ~req.json
                       \/ InvalidField(body.channel)
                       \/ InvalidField(body.sender)
                       \/ InvalidField(body.message)
           messageId == MessageIdOf(body, k)
           dir == DirOf(body.channel.s)
           rec == [file |-> <<body.channel.s, k>>,
                   data |-> [channel |-> body.channel, sender |-> body.sender,
                             message |-> body.message, messageId |-> messageId]]
       IN IF rejected \/ dir = "missing"
          THEN /\ hook' = [hook EXCEPT !.n = k, !.req = req, !.status = 400,
                                       !.messageId = Absent]
               /\ UNCHANGED incoming
          ELSE /\ hook' = [hook EXCEPT !.n = k, !.req = req, !.status = 200,
                                       !.messageId = messageId,
                                       !.outside = IF dir = "incoming" THEN @
                                                   ELSE @ \cup {rec},
                                       !.accepted = messageId.s,
                                       !.untouched = TRUE]
               /\ incoming' = IF dir = "incoming" THEN incoming \cup {rec}
                              ELSE incoming
    /\ UNCHANGED <<processing, outgoing, channelOf, nextId, resetFlag, timerDue,
                   proc, faults, crashes, respCount, invoked, faulted, orphans,
                   polled, unconsumed, setSinceStart, reply, adapterState, fleet, split, cli, wa>>

Post == \E req \in WebhookRequests : PostMessage(req)

\* the caller reads the response and the connection closes
Respond ==
    /\ hook.status # 0
    /\ hook' = [hook EXCEPT !.req = NoRequest, !.status = 0,
                            !.messageId = Absent, !.query = <<>>,
                            !.result = "", !.data = {}]
    /\ UNCHANGED <<procVars, reply, adapterState, fleet, split, cli, wa>>

WebhookNext ==
    \/ Post
    \/ Respond

WebhookSpec == WebhookInit /\ [][WebhookNext]_vars

\* ------------------------------------------------------------- C20
\* C20 as stated: a POST adds exactly one record to incoming, carrying the
\* messageId of the 200 response (the caller's, or a synthesized one), if
\* and only if channel, sender and message are all non-empty strings;
\* otherwise the answer is 400 and the three stages are unchanged.
PostQueuesIffFieldsValid ==
    [][hook'.n = hook.n + 1 =>
          LET body == hook'.req.body
              IsText(v) == v.t = "string" /\ v.s # <<>>
              valid == /\ hook'.req.json
                       /\ IsText(body.channel)
                       /\ IsText(body.sender)
                       /\ IsText(body.message)
          IN /\ valid =>
                   /\ hook'.status = 200
                   /\ incoming \subseteq incoming'
                   /\ Cardinality(incoming' \ incoming) = 1
                   /\ \A r \in incoming' \ incoming :
                         r.data.messageId = hook'.messageId
                   /\ IsText(body.messageId) => hook'.messageId = body.messageId
                   /\ UNCHANGED <<processing, outgoing>>
             /\ ~valid =>
                   /\ hook'.status = 400
                   /\ UNCHANGED queueVars]_vars

\* ====================================== the adapters side by side
\* Each adapter and the processor is a process of its own; they meet in the
\* queue directories only.  fs.writeFileSync creates the file empty and
\* fills it afterwards; a process that stops in between leaves it empty.
FleetFrame ==
    UNCHANGED <<resetFlag, timerDue, proc, crashes, invoked, faulted,
                orphans, polled, unconsumed, setSinceStart, reply,
                adapterState, hook, split, cli, wa>>

\* the message handler of adapter c reaches fs.writeFileSync(queueFile, ...)
FleetOnMessage(c) ==
    /\ fleet.up[c]
    /\ fleet.writing[c] = 0
    /\ nextId <= MaxMsgs
    /\ channelOf' = [channelOf EXCEPT ![nextId] = c]
    /\ incoming' = incoming \cup {nextId}
    /\ nextId' = nextId + 1
    /\ fleet' = [fleet EXCEPT !.writing[c] = nextId,
                              !.partial = @ \cup {nextId}]
    /\ UNCHANGED <<processing, outgoing, respCount, faults>>
    /\ FleetFrame

\* the write completes and the handler goes on to pendingMessages.set
FleetFinishWrite(c) ==
    /\ fleet.up[c]
    /\ fleet.writing[c] # 0
    /\ fleet' = [fleet EXCEPT !.writing[c] = 0,
                              !.partial = @ \ {fleet.writing[c]},
                              !.pending[c] = @ \cup {fleet.writing[c]}]
    /\ UNCHANGED <<incoming, processing, outgoing, channelOf, nextId, respCount,
                   faults>>
    /\ FleetFrame

\* files.filter(f => f.startsWith('telegram_') && f.endsWith('.json')), and
\* the same with 'whatsapp_'
OwnFilesAll(c, out) == out
OwnFiles(c, out) == {r \in out : r.file[1] = c}

\* the catch around one file of the scan: log('ERROR', ...), nothing else
ScanCatchRequeue(q, f) == [inc |-> q.inc \cup {f}, out |-> q.out]
ScanCatch(q, f) == q

\* checkOutgoingQueue of adapter c: every file of its own is handed to the
\* platform if its messageId has an entry, and unlinked.  The send is not
\* awaited, so what becomes of it later changes nothing here; when the call
\* itself (or the read, or the unlink) throws, the file and the entry stay
\* as they are.
FleetScan(c) ==
    /\ fleet.up[c]
    /\ fleet.writing[c] = 0
    /\ OwnFiles(c, outgoing) # {}
    /\ \/ /\ LET ids == {r.messageId : r \in OwnFiles(c, outgoing)}
             IN fleet' = [fleet EXCEPT
                             !.delivered[c] = @ \cup (ids \cap fleet.pending[c]),
                             !.pending[c] = @ \ ids]
          /\ outgoing' = outgoing \ OwnFiles(c, outgoing)
          /\ UNCHANGED <<incoming, faults>>
       \/ /\ faults < MaxFaults
          /\ \E r \in OwnFiles(c, outgoing) :
                /\ r.messageId \in fleet.pending[c]
                /\ LET q == ScanCatch([inc |-> incoming, out |-> outgoing],
                                      r.messageId)
                   IN /\ incoming' = q.inc
                      /\ outgoing' = q.out
          /\ faults' = faults + 1
          /\ UNCHANGED fleet
    /\ UNCHANGED <<processing, channelOf, nextId, respCount>>
    /\ FleetFrame

\* adapter c crashes or hangs, wherever it is; one adapter does
FleetStop(c) ==
    /\ \A d \in AdapterChannels : fleet.up[d]
    /\ fleet' = [fleet EXCEPT !.up[c] = FALSE]
    /\ UNCHANGED <<incoming, processing, outgoing, channelOf, nextId, respCount,
                   faults>>
    /\ FleetFrame

\* processQueue lists incoming, oldest first
FleetPoll ==
    /\ fleet.files = <<>>
    /\ fleet.cur = 0
    /\ incoming # {}
    /\ fleet' = [fleet EXCEPT !.files = SortByTime(incoming)]
    /\ UNCHANGED <<incoming, processing, outgoing, channelOf, nextId, respCount,
                   faults>>
    /\ FleetFrame

\* processMessage: fs.renameSync(messageFile, processingFile)
FleetClaim ==
    /\ fleet.files # <<>>
    /\ fleet.cur = 0
    /\ LET f == Head(fleet.files)
           r == Rename(incoming, processing, f)
       IN /\ incoming' = r.from
          /\ processing' = r.to
          /\ fleet' = [fleet EXCEPT !.files = Tail(@), !.cur = f]
    /\ UNCHANGED <<outgoing, channelOf, nextId, respCount, faults>>
    /\ FleetFrame

\* processMessage from JSON.parse on: an empty file throws and is renamed
\* back to incoming; a whole record is answered and its copy deleted
FleetAnswer ==
    /\ fleet.cur # 0
    /\ LET f == fleet.cur
       IN IF f \in fleet.partial
          THEN LET r == Requeue(incoming, processing, f)
               IN /\ processing' = r.from
                  /\ incoming' = r.to
                  /\ UNCHANGED <<outgoing, respCount>>
          ELSE /\ outgoing' = outgoing
                      \cup {ResponseData(f, Reply, respCount[f] + 1)}
               /\ respCount' = [respCount EXCEPT ![f] = @ + 1]
               /\ processing' = processing \ {f}
               /\ UNCHANGED incoming
    /\ fleet' = [fleet EXCEPT !.cur = 0]
    /\ UNCHANGED <<channelOf, nextId, faults>>
    /\ FleetFrame

FleetInit ==
    /\ InitQueue
    /\ InitParts

FleetNext ==
    \/ \E c \in AdapterChannels : FleetOnMessage(c)
    \/ \E c \in AdapterChannels : FleetFinishWrite(c)
    \/ \E c \in AdapterChannels : FleetScan(c)
    \/ \E c \in AdapterChannels : FleetStop(c)
    \/ FleetPoll
    \/ FleetClaim
    \/ FleetAnswer

FleetSpec == FleetInit /\ [][FleetNext]_vars

\* the processor keeps polling and its steps complete; an adapter that has
\* not stopped completes its writes and keeps scanning outgoing
FairFleetSpec ==
    /\ FleetSpec
    /\ WF_vars(FleetPoll)
    /\ WF_vars(FleetClaim)
    /\ WF_vars(FleetAnswer)
    /\ \A c \in AdapterChannels : WF_vars(FleetFinishWrite(c))
    /\ \A c \in AdapterChannels : WF_vars(FleetScan(c))

\* ------------------------------------------------------------- C26
\* C26: when one adapter crashes or hangs at any point, every record in
\* incoming is still claimed and answered, and every response of an adapter
\* that is running is still delivered by it: the responses the stopped
\* adapter leaves in outgoing hold up neither the processor nor the others.
OwnerRuns(f) == channelOf[f] # "" /\ fleet.up[channelOf[f]]
OwnerStopped(f) == channelOf[f] # "" /\ ~fleet.up[channelOf[f]]
DeliveredByOwner(f) == channelOf[f] # "" /\ f \in fleet.delivered[channelOf[f]]
AdapterStep ==
    \E c \in AdapterChannels :
        FleetOnMessage(c) \/ FleetFinishWrite(c) \/ FleetScan(c) \/ FleetStop(c)
ProcessorStep == FleetPoll \/ FleetClaim \/ FleetAnswer

\* C27: every stage transition has one owner.  An adapter only adds new
\* records to incoming and only deletes from outgoing; the processor alone
\* takes records out of incoming and processing and writes to outgoing, and
\* deletes nothing from outgoing; an outgoing scan, a failed delivery
\* included, leaves incoming as it is, so no message is enqueued again.
StagesHaveOneOwner ==
    [][/\ AdapterStep => /\ incoming \subseteq incoming'
                         /\ incoming' \ incoming \subseteq {nextId}
                         /\ processing' = processing
                         /\ outgoing' \subseteq outgoing
       /\ ProcessorStep => outgoing \subseteq outgoing'
       /\ (\E c \in AdapterChannels : FleetScan(c)) => incoming' = incoming
       /\ (incoming' # incoming \/ processing' # processing
            \/ ~(outgoing' \subseteq outgoing))
              => (ProcessorStep \/ \E c \in AdapterChannels : FleetOnMessage(c))
       /\ ~(outgoing \subseteq outgoing')
              => \E c \in AdapterChannels : FleetScan(c)]_vars

\* a delivery has failed: the response is still in outgoing with its entry,
\* and the record it answers is in no other stage
FailedDeliveryLeftInOutgoing ==
    /\ faults > 0
    /\ \E r \in outgoing :
          /\ r.messageId \in fleet.pending[r.channel]
          /\ r.messageId \notin incoming \cup processing

\* ------------------------------------------------------------- C33
\* a file that JSON.parse rejects on every attempt: its writer stopped
\* inside writeFileSync and nothing will ever complete it
Unparseable(f) == f \in fleet.partial /\ OwnerStopped(f)
Listed(f) == \E i \in 1..Len(fleet.files) : fleet.files[i] = f

\* C33: a record that fails on every attempt is requeued on each of them and
\* claimed again on a later poll, for ever; its failure leaves the rest of
\* the pass's listing to be claimed in turn, and every other record of
\* incoming is claimed and answered.
FailingRecordRetriedOthersServed ==
    /\ \A f \in Ids : Unparseable(f) ~> (fleet.cur = f)
    /\ [][\A f \in Ids :
            (fleet.cur = f /\ Unparseable(f) /\ fleet'.cur # f) =>
                /\ f \in incoming' /\ f \notin processing'
                /\ fleet'.files = fleet.files
                /\ outgoing' = outgoing]_vars
    /\ [][\A g \in Ids :
            (Listed(g) /\ ~Listed(g)') => fleet'.cur = g]_vars
    /\ \A g \in Ids :
          (g \in incoming /\ ~Unparseable(g) /\ g \notin fleet.partial)
              ~> (respCount[g] > 0)

\* the record enqueued after an unparseable one has been answered, and the
\* unparseable one, back in incoming since, is claimed once more
FailingRecordClaimedAgain ==
    \E f, g \in Ids :
        /\ f < g
        /\ Unparseable(f)
        /\ respCount[g] > 0
        /\ fleet.cur = f

\* ============================================ the webhook and the queue
\* The webhook server with the processor it shares a process with, as its
\* callers see them: requests are answered between the processor's passes,
\* never during one.
StatusPost ==
    /\ hook.status = 0
    /\ \E req \in CallerRequests : PostMessage(req)

\* processMessage on the oldest record of incoming, from renameSync to
\* unlinkSync
ProcessRecord ==
    /\ hook.status = 0
    /\ incoming # {}
    /\ LET r == Oldest(incoming)
           o == ResponseOf(r)
       IN /\ incoming' = incoming \ {r}
          /\ outgoing' = {q \in outgoing : q.file # o.file} \cup {o}
          /\ hook' = [hook EXCEPT !.untouched = FALSE,
                                  !.processed = @ \cup {r.data.messageId.s}]
    /\ UNCHANGED <<processing, channelOf, nextId, resetFlag, timerDue, proc,
                   faults, crashes, respCount, invoked, faulted, orphans,
                   polled, unconsumed, setSinceStart, reply, adapterState, fleet, split, cli, wa>>

\* the process is killed during the provider call for the oldest record and
\* started again: the record stays in processing
StrandRecord ==
    /\ hook.status = 0
    /\ incoming # {}
    /\ LET r == Oldest(incoming)
       IN /\ incoming' = incoming \ {r}
          /\ processing' = processing \cup {r}
          /\ hook' = [hook EXCEPT !.untouched = FALSE]
    /\ UNCHANGED <<outgoing, channelOf, nextId, resetFlag, timerDue, proc,
                   faults, crashes, respCount, invoked, faulted, orphans,
                   polled, unconsumed, setSinceStart, reply, adapterState, fleet, split, cli, wa>>

\* the files of outgoing the Telegram adapter's scan takes up
TelegramFiles(out) ==
    {r \in out : StartsWith(r.file, Concat(TelegramText, Underscore))}

\* the Telegram adapter's checkOutgoingQueue meets telegram_ files written
\* for webhook records: it reads each, has no entry for its messageId and
\* unlinks it
ConsumeResponse ==
    /\ TelegramFiles(outgoing) # {}
    /\ outgoing' = outgoing \ TelegramFiles(outgoing)
    /\ hook' = [hook EXCEPT !.untouched = FALSE,
                            !.scanned = @ \cup {r.data : r \in TelegramFiles(outgoing)}]
    /\ UNCHANGED <<incoming, processing, channelOf, nextId, resetFlag, timerDue,
                   proc, faults, crashes, respCount, invoked, faulted, orphans,
                   polled, unconsumed, setSinceStart, reply, adapterState, fleet, split, cli, wa>>

\* the messageIds a caller asks about: one of a record, its own, or neither
QueryIds ==
    {r.data.messageId.s : r \in incoming \cup processing \cup outgoing}
    \cup CallerIds \cup {Chars(<<"z">>)}

\* GET /webhook/status/:messageId
GetStatus ==
    /\ hook.status = 0
    /\ \E q \in QueryIds :
        LET result == GetMessageStatus(incoming, processing, outgoing, q)
        IN hook' = [hook EXCEPT !.status = StatusCode(result), !.query = q,
                                !.result = result.status,
                                !.data = result.data]
    /\ UNCHANGED <<procVars, reply, adapterState, fleet, split, cli, wa>>

StatusNext ==
    \/ StatusPost
    \/ Respond
    \/ ProcessRecord
    \/ StrandRecord
    \/ ConsumeResponse
    \/ GetStatus

StatusSpec == WebhookInit /\ [][StatusNext]_vars

\* ------------------------------------------------------------- C21
\* C21: whatever the three stages hold, a status query answers 'completed'
\* with the record when a record with that messageId is in outgoing,
\* otherwise 'processing' when one is in processing, otherwise 'queued'
\* when one is in incoming, otherwise 'not_found' with HTTP status 404.
StatusFollowsStages ==
    [][(hook.result = "" /\ hook'.result # "") =>
          LET q == hook'.query
              In(dir) == \E r \in dir : r.data.messageId = Str(q)
          IN /\ In(outgoing) =>
                   /\ hook'.result = "completed"
                   /\ hook'.status = 200
                   /\ \E r \in outgoing : r.data.messageId = Str(q)
                                          /\ hook'.data = {r.data}
             /\ (~In(outgoing) /\ In(processing)) =>
                   (hook'.result = "processing" /\ hook'.status = 200)
             /\ (~In(outgoing) /\ ~In(processing) /\ In(incoming)) =>
                   (hook'.result = "queued" /\ hook'.status = 200)
             /\ (~In(outgoing) /\ ~In(processing) /\ ~In(incoming)) =>
                   (hook'.result = "not_found" /\ hook'.status = 404)]_vars

\* a query was answered 'completed' while a record with the same messageId
\* was waiting in incoming
CompletedWinsOverQueued ==
    /\ hook.result = "completed"
    /\ \E r \in incoming : r.data.messageId = Str(hook.query)
    /\ \E r \in outgoing : hook.data = {r.data}

\* ------------------------------------------------------------- C22
\* C22: a status query with the messageId an accepted POST returned, made
\* before anything else touches the queue, answers 'queued'; and every
\* status query for a messageId whose record the processor has processed
\* answers 'completed' with the reply as its message.
QueuedThenCompleted ==
    [][(hook.result = "" /\ hook'.result # "") =>
          /\ (hook.untouched /\ hook'.query = hook.accepted) =>
                 hook'.result = "queued"
          /\ hook'.query \in hook.processed =>
                 /\ hook'.result = "completed"
                 /\ \E d \in hook'.data : d.message = Str(ReplyText)]_vars

\* ------------------------------------------------------------- C24
\* C24: no two distinct records of the queue stages have the same channel
\* and the same messageId.  Records written for one message (a Message
\* Record and its Response Record) carry the same file stamp and count as
\* one.
NoSharedIdentifier ==
    \A r, q \in incoming \cup processing \cup outgoing :
        (r.data.channel = q.data.channel /\ r.data.messageId = q.data.messageId)
            => Stamp(r) = Stamp(q)

\* ------------------------------------------------------------- C25
\* C25: the Response Record of every record whose channel is 'heartbeat' is
\* written under its messageId alone, and no channel adapter ever reads,
\* delivers or removes it.
HeartbeatKeptFromAdapters ==
    /\ \A r \in outgoing :
           r.data.channel = Str(HeartbeatText) => r.file = r.data.messageId.s
    /\ \A d \in hook.scanned : d.channel # Str(HeartbeatText)

\* ================================================== splitMessage
SplitInit ==
    /\ InitQueue
    /\ reply = NoReply
    /\ adapter = "telegram"
    /\ InitAdapter
    /\ hook = NoHook
    /\ fleet = NoFleet
    /\ cli = NoCli
    /\ wa = NoWa
    /\ split \in {[NoSplit EXCEPT !.pc = "called", !.text = i.text,
                                  !.maxLength = i.maxLength] : i \in SplitInputs}

SplitFrame == UNCHANGED <<procVars, reply, adapterState, hook, fleet, cli, wa>>

\* if (text.length <= maxLength) return [text];  else the locals of the loop
SplitEnter ==
    /\ split.pc = "called"
    /\ IF TextLen(split.text) <= split.maxLength
       THEN split' = [split EXCEPT !.pc = "returned", !.chunks = <<split.text>>]
       ELSE split' = [split EXCEPT !.pc = "loop", !.remaining = split.text]
    /\ SplitFrame

\* one turn of while (remaining.length > 0)
SplitTurn ==
    /\ split.pc = "loop"
    /\ LET remaining == split.remaining
           splitIndex == SplitIndex(remaining, split.maxLength)
       IN IF TextLen(remaining) = 0
          THEN split' = [split EXCEPT !.pc = "returned"]
          ELSE IF TextLen(remaining) <= split.maxLength
          THEN split' = [split EXCEPT !.pc = "returned",
                                      !.chunks = Append(@, remaining),
                                      !.remaining = <<>>]
          ELSE split' = [split EXCEPT
                   !.chunks = Append(@, Substring0(remaining, splitIndex)),
                   !.remaining = DropLeadingNewline(
                                     SubstringFrom(remaining, splitIndex)),
                   !.cuts = Append(@, [of |-> remaining, at |-> splitIndex])]
    /\ SplitFrame

SplitNext ==
    \/ SplitEnter
    \/ SplitTurn

SplitSpec == SplitInit /\ [][SplitNext]_vars

\* ------------------------------------------------------------- C30
\* text t holds ch at index i; t holds no ch at the indices lo..hi
HoldsAt(t, ch, i) ==
    \E j \in 1..Len(t) : /\ t[j].c = ch
                         /\ SegStart(t, j) <= i
                         /\ i <= SegStart(t, j) + t[j].n - 1
NoneIn(t, ch, lo, hi) ==
    \/ lo > hi
    \/ \A j \in 1..Len(t) : t[j].c = ch =>
           (SegStart(t, j) + t[j].n - 1 < lo \/ SegStart(t, j) > hi)
LastIn(t, ch, maxLength, at) ==
    /\ at \in 1..maxLength
    /\ HoldsAt(t, ch, at)
    /\ NoneIn(t, ch, at + 1, maxLength)

\* the cut C30 describes for a text longer than maxLength is the one at `at`
CutAsDescribed(t, maxLength, at) ==
    IF ~NoneIn(t, "\n", 1, maxLength) THEN LastIn(t, "\n", maxLength, at)
    ELSE IF ~NoneIn(t, " ", 1, maxLength) THEN LastIn(t, " ", maxLength, at)
    ELSE at = maxLength

\* the call goes on until it returns, and every turn of the loop that does
\* not return leaves less of the text: the call terminates
SplitGoesOn == split.pc # "returned" => ENABLED SplitNext
SplitShortens ==
    (split.pc = "loop" /\ split'.pc = "loop") =>
        TextLen(split'.remaining) < TextLen(split.remaining)

\* what C30 says of the chunks and the cuts of a call that has returned
ReturnedAsDescribed(nonEmpty) ==
    split.pc = "returned" =>
        /\ \A i \in 1..Len(split.chunks) :
              /\ TextLen(split.chunks[i]) <= split.maxLength
              /\ nonEmpty => TextLen(split.chunks[i]) > 0
        /\ TextLen(split.text) <= split.maxLength =>
              split.chunks = <<split.text>>
        /\ \A i \in 1..Len(split.cuts) :
              CutAsDescribed(split.cuts[i].of, split.maxLength, split.cuts[i].at)

\* C30 as stated: for every text and every maxLength >= 1 splitMessage
\* terminates; every chunk is non-empty and at most maxLength long; a text
\* of at most maxLength is returned as one chunk; every cut is at the last
\* newline at an index in 1..maxLength, else at the last space there, else
\* at maxLength.
SplitChunksNeverEmpty ==
    /\ [][SplitShortens]_vars
    /\ [](SplitGoesOn /\ ReturnedAsDescribed(TRUE))

\* C30 amended: the same, with non-empty chunks for every text but the empty
\* one, which is returned as a single empty chunk.
SplitChunksEmptyOnlyForEmptyText ==
    /\ [][SplitShortens]_vars
    /\ [](SplitGoesOn /\ ReturnedAsDescribed(split.text # <<>>))

\* a text cut once at a newline and once at a space, returned in three chunks
CutAtNewlineAndAtSpace ==
    /\ split.pc = "returned"
    /\ Len(split.chunks) = 3
    /\ \E i, j \in 1..Len(split.cuts) :
          LET NewlineAt(c) == LastIndexOf(c.of, "\n", c.at) = c.at
          IN /\ NewlineAt(split.cuts[i])
             /\ ~NewlineAt(split.cuts[j])
             /\ split.cuts[j].at < split.maxLength

\* ------------------------------------------------------------- C39
\* t is the chunks cs in their order, with nothing between two of them or
\* after the last but, at each of the n split points, at most one newline
RECURSIVE JoinsTo(_, _, _)
JoinsTo(t, cs, n) ==
    IF cs = <<>> THEN t = <<>> /\ n = 0
    ELSE LET c == Head(cs)
             rest == SubstringFrom(t, TextLen(c))
             newline == rest # <<>> /\ Head(rest).c = "\n"
         IN /\ Substring0(t, TextLen(c)) = c
            /\ TextLen(c) <= TextLen(t)
            /\ IF Tail(cs) = <<>>
               THEN \/ n = 0 /\ rest = <<>>
                    \/ n = 1 /\ rest = <<[c |-> "\n", n |-> 1]>>
               ELSE /\ n > 0
                    /\ \/ JoinsTo(rest, Tail(cs), n - 1)
                       \/ newline /\ JoinsTo(SubstringFrom(rest, 1), Tail(cs), n - 1)

\* C39: the chunks splitMessage returns, concatenated in their order, are
\* the input text except for at most one newline dropped at each split
\* point; nothing else is lost, duplicated or reordered.  The same holds in
\* the loop of the chunks made so far followed by what remains.
ChunksJoinToText ==
    /\ split.pc = "returned" =>
          JoinsTo(split.text, split.chunks, Len(split.cuts))
    /\ split.pc = "loop" =>
          JoinsTo(split.text, Append(split.chunks, split.remaining),
                  Len(split.cuts))

\* a call has returned three chunks, a newline dropped at one split point
\* and none at the other
NewlineDroppedAtOneCutOnly ==
    /\ split.pc = "returned"
    /\ Len(split.chunks) = 3
    /\ Len(split.cuts) = 2
    /\ TextLen(split.text) =
          TextLen(split.chunks[1]) + TextLen(split.chunks[2])
              + TextLen(split.chunks[3]) + 1

\* =================================================== the reply's way
\* processMessage lines 221-227 on their own: the text execSync returned
\* (or the text the inner catch put in its place) is trimmed and limited
\* before it goes into responseData.message
ReplyInit ==
    /\ InitQueue
    /\ reply \in {[pc |-> "raw", raw |-> t, trimmed |-> <<>>, message |-> <<>>]
                    : t \in Replies}
    /\ adapter = "telegram"
    /\ InitAdapter
    /\ hook = NoHook
    /\ fleet = NoFleet
    /\ cli = NoCli
    /\ wa = NoWa
    /\ split = NoSplit

\* response = response.trim()
TrimResponse ==
    /\ reply.pc = "raw"
    /\ reply' = [reply EXCEPT !.pc = "trimmed", !.trimmed = Trim(reply.raw)]
    /\ UNCHANGED <<procVars, adapterState, hook, fleet, split, cli, wa>>

\* if (response.length > 4000) { ... }; message: response
LimitResponse ==
    /\ reply.pc = "trimmed"
    /\ reply' = [reply EXCEPT !.pc = "done",
                              !.message = Truncate(reply.trimmed)]
    /\ UNCHANGED <<procVars, adapterState, hook, fleet, split, cli, wa>>

ReplyNext ==
    \/ TrimResponse
    \/ LimitResponse

ReplySpec == ReplyInit /\ [][ReplyNext]_vars

\* r is t without the whitespace at its two ends
IsTrimOf(r, t) ==
    /\ r = <<>> \/ (~IsSpace(Head(r).c) /\ ~IsSpace(r[Len(r)].c))
    /\ \E l \in Pads, w \in Pads : t = Concat(Concat(l, r), w)

\* ------------------------------------------------------------- C11
\* C11: the message of the Response Record is the trimmed reply unchanged
\* when the trimmed reply has at most 4000 characters, and otherwise its
\* first 3900 characters followed by the truncation marker; it never has
\* more than 4000 characters.
MessageIsLimitedReply ==
    reply.pc = "done" =>
        /\ IsTrimOf(reply.trimmed, reply.raw)
        /\ TextLen(reply.trimmed) <= 4000 => reply.message = reply.trimmed
        /\ TextLen(reply.trimmed) > 4000 =>
              /\ Substring0(reply.message, 3900) = Substring0(reply.trimmed, 3900)
              /\ SubstringFrom(reply.message, 3900) = TruncationMarker
        /\ TextLen(reply.message) <= 4000

\* a padded reply of more than 4000 characters went through both steps
LongReplyCut ==
    /\ reply.pc = "done"
    /\ reply.raw # reply.trimmed
    /\ TextLen(reply.trimmed) > 4000
    /\ TextLen(reply.message) = 3925

\* ------------------------------------------------------------- C12
\* C12: every Response Record in outgoing carries the messageId, channel
\* and sender of the Message Record it was produced from and that record's
\* text as originalMessage, and its messageId is one that was enqueued.
ResponseCarriesItsMessage ==
    \A r \in outgoing :
        /\ r.messageId \in Enqueued
        /\ r.channel = channelOf[r.messageId]
        /\ r.channel = ChannelOfId(r.messageId)
        /\ r.sender = SenderOfId(r.messageId)
        /\ r.originalMessage = TextOfId(r.messageId)
        /\ r.originalMessage # r.message

\* Response Records of two different Message Records are in outgoing
TwoRecordsAnswered ==
    \E r, q \in outgoing : r.messageId # q.messageId

\* ------------------------------------------------------------- C13
\* C13 as stated: no reader ever meets a partially written record: the
\* processor reads no incoming record its adapter is still writing, and the
\* adapter reads no Response Record the processor is still writing.
NoPartialRecordRead == sawPartial = {}

\* ------------------------------------------------------------- C16
\* C16 as stated: at no instant does the adapter's map hold an entry older
\* than five minutes.
NoStaleEntryHeld ==
    \A e \in pendingMessages : now - e.timestamp <= 5

\* C16, amended: an entry is created, stamped with the current time, when
\* the handler has written its Message Record, and at that moment the map
\* holds no entry older than five minutes; an entry leaves the map only by
\* the delivery of its response or by that sweep, being older than five
\* minutes.
EntriesSweptOnEnqueue ==
    [][/\ FinishWrite =>
            /\ \E e \in pendingMessages' :
                  e.id = apc.id /\ e.timestamp = now /\ e.chatId = origin[apc.id]
            /\ \A e \in pendingMessages' : now - e.timestamp <= 5
       /\ \A e \in pendingMessages' \ pendingMessages : Unfinished(e.id)
       /\ \A e \in pendingMessages \ pendingMessages' :
            \/ /\ sendLog'[e.id] = Append(sendLog[e.id], e.chatId)
               /\ stage[e.id] = "outgoing"
            \/ /\ apc.pc = "writing" /\ apc'.pc = "idle"
               /\ now - e.timestamp > 5]_vars

\* the sweep has removed the entry of a record that is still on its way:
\* written in full, not delivered, and without an entry
EntrySweptBeforeDelivery ==
    \E i \in AIds :
        /\ stage[i] \in {"incoming", "processing", "responding", "outgoing"}
        /\ ~Unfinished(i)
        /\ ~HasEntry(i)
        /\ sendLog[i] = <<>>

\* ------------------------------------------------------------- C17
\* C17: a scan that finds a Response Record of its channel whose messageId
\* has a Pending Delivery Entry sends the reply to the entry's target, which
\* is the chat the message came from, and removes the entry and the record;
\* no record is handed to the platform more than once.
DeliveredOnceToItsTarget ==
    /\ [][CheckOutgoingQueue =>
            \A i \in AIds :
                (stage[i] = "outgoing" /\ HasEntry(i)) =>
                    /\ sendLog'[i] = Append(sendLog[i], origin[i])
                    /\ \A e \in pendingMessages' : e.id # i
                    /\ stage'[i] = "removed"]_vars
    /\ [](\A i \in AIds : Len(sendLog[i]) <= 1)

\* a reply has been delivered to the chat its message came from
ReplyDelivered ==
    \E i \in AIds :
        /\ i \in lastScan.delivered
        /\ sendLog[i] = <<origin[i]>>
        /\ stage[i] = "removed"

\* ------------------------------------------------------------- C18
\* C18: a scan that finds a Response Record of its channel whose messageId
\* has no Pending Delivery Entry removes the record and sends nothing for
\* it, and the other records of the same scan are handled as they would be
\* without it.
OrphanDroppedScanGoesOn ==
    [][CheckOutgoingQueue =>
          \A i \in AIds :
              (stage[i] = "outgoing" /\ ~HasEntry(i)) =>
                  /\ stage'[i] = "removed"
                  /\ sendLog'[i] = sendLog[i]
                  /\ \A j \in AIds \ {i} :
                        (stage[j] = "outgoing" /\ HasEntry(j)) =>
                            /\ stage'[j] = "removed"
                            /\ sendLog'[j] = Append(sendLog[j], origin[j])]_vars

\* one scan dropped a record without an entry and delivered another
OrphanDroppedOtherDelivered ==
    /\ lastScan.dropped # {}
    /\ lastScan.delivered # {}
    /\ \A i \in lastScan.dropped : sendLog[i] = <<>> /\ stage[i] = "removed"

\* ------------------------------------------------------------- C19
\* C19 as stated: the handler writes a record to incoming if and only if
\* the message is eligible (private chat, text that is not blank, not sent
\* by the adapter itself) and is not a reset command; a reset command sets
\* the flag, is answered and queues nothing; an ineligible message changes
\* neither the queue, the map nor the flag; the record written gets its
\* Pending Delivery Entry.
QueuedIffEligibleNotReset ==
    [][/\ InboundAny =>
            LET m == event'.msg
                eligible == /\ m.private
                            /\ m.hasText
                            /\ TextLen(Trim(m.body)) > 0
                            /\ ~m.fromMe
            IN /\ (stage' # stage) <=> (eligible /\ ~IsReset(m.body))
               /\ (eligible /\ IsReset(m.body)) =>
                     /\ resetFlag'
                     /\ event'.did = "reset"
                     /\ UNCHANGED <<stage, pendingMessages>>
               /\ ~eligible => UNCHANGED <<stage, pendingMessages, resetFlag>>
       /\ FinishWrite => \E e \in pendingMessages' : e.id = apc.id]_vars

MaxSends == 2       \* `tinyclaw.sh send` commands typed in one run

\* `tinyclaw.sh send <message>`: the shell runs claude -c -p itself, in the
\* same directory as the processor does, and waits for it
SendMessage ==
    /\ cli.running + cli.finished < MaxSends
    /\ cli' = [cli EXCEPT !.running = @ + 1]
    /\ UNCHANGED <<procVars, reply, adapterState, hook, fleet, split, wa>>

\* claude returns; the command prints the response and ends
SendReturn ==
    /\ cli.running > 0
    /\ cli' = [cli EXCEPT !.running = @ - 1, !.finished = @ + 1]
    /\ UNCHANGED <<procVars, reply, adapterState, hook, fleet, split, wa>>

SendNext ==
    \/ NextNoCrash
    \/ SendMessage
    \/ SendReturn

SendSpec == Init /\ [][SendNext]_vars

\* ------------------------------------------------------------- C32
\* the provider invocations in flight, whoever made them
InvocationsInFlight ==
    Cardinality({a \in Slots : proc[a].pc = "invoke"}) + cli.running

\* C32: every invocation of the AI provider, by the queue processor or by
\* `tinyclaw.sh send`, is made for a record that is in processing while it
\* runs: there is never more than one invocation in flight and none is made
\* without a record in the queue.
InvocationsGoThroughQueue ==
    /\ InvocationsInFlight <= 1
    /\ \A a \in Slots : proc[a].pc = "invoke" => proc[a].cur \in processing
    /\ cli.running = 0

\* ------------------------------------------------------------- C34
\* C34 as stated: the adapter of this specification runs from start to end,
\* and no Response Record to a message it enqueued is discarded as an orphan.
ResponseNeverOrphaned ==
    \A i \in AIds : i \notin lastScan.dropped

\* record i is written in full and its response has not been scanned yet
OnItsWay(i) ==
    /\ stage[i] \in {"incoming", "processing", "responding", "outgoing"}
    /\ ~Unfinished(i)

\* C34, amended: the response to a message of an adapter that stays running
\* is delivered to the sender if its entry is in the map when the scan finds
\* it, however long the invocation took, and is discarded otherwise.  The
\* entry is missing exactly when the adapter has since enqueued another
\* message more than five minutes after this one: that handler's sweep
\* removes every other entry older than five minutes and none younger.
DeliveredUnlessSweptMeanwhile ==
    /\ [](\A i \in AIds :
            (OnItsWay(i) /\ ~HasEntry(i)) =>
                /\ now > StaleMinutes
                /\ \E j \in AIds : j > i /\ j <= inbound /\ ~Unfinished(j))
    /\ [][CheckOutgoingQueue =>
            \A i \in AIds :
                stage[i] = "outgoing" =>
                    IF HasEntry(i)
                    THEN /\ sendLog'[i] = Append(sendLog[i], origin[i])
                         /\ i \in lastScan'.delivered
                    ELSE /\ sendLog'[i] = sendLog[i]
                         /\ i \in lastScan'.dropped]_vars
    /\ [][FinishWrite =>
            \A e \in pendingMessages :
                e.id # apc.id =>
                    (HasEntry(e.id)' <=> now - e.timestamp <= StaleMinutes)]_vars

\* the invocation took more than five minutes and another message came in
\* meanwhile: the response was discarded, nothing was sent to the sender
OrphanedAfterLongInvocation ==
    \E i \in AIds :
        /\ i \in lastScan.dropped
        /\ stage[i] = "removed"
        /\ sendLog[i] = <<>>
        /\ inbound > i

\* ======================================== the reply's way to Telegram
\* The text of a provider call from trim() to the Telegram adapter's
\* splitMessage: lines 221-227 of processMessage, the Response Record, and
\* checkOutgoingQueue's call splitMessage(responseText) with the default
\* limit.  JSON.stringify and JSON.parse hand the string on as it is.

\* response = "Sorry, I encountered an error processing your request."
ApologyText == <<[c |-> Apology, n |-> 54]>>

\* what execSync returns or the inner catch puts in its place: the replies
\* of ReplySpec, the apology, and texts about as long as Telegram's limit
DeliverReplies ==
    Replies \cup {ApologyText}
        \cup TextsOf((DefaultMax - Near)..(DefaultMax + Near))

DeliverInit ==
    /\ InitQueue
    /\ reply \in {[pc |-> "raw", raw |-> t, trimmed |-> <<>>, message |-> <<>>]
                    : t \in DeliverReplies}
    /\ adapter = "telegram"
    /\ InitAdapter
    /\ hook = NoHook
    /\ fleet = NoFleet
    /\ cli = NoCli
    /\ wa = NoWa
    /\ split = NoSplit

\* const chunks = splitMessage(responseText): the call
SendResponse ==
    /\ reply.pc = "done"
    /\ split.pc = "idle"
    /\ split' = [NoSplit EXCEPT !.pc = "called", !.text = reply.message,
                                !.maxLength = DefaultMax]
    /\ SplitFrame

DeliverNext ==
    \/ TrimResponse
    \/ LimitResponse
    \/ SendResponse
    \/ SplitEnter

DeliverSpec == DeliverInit /\ [][DeliverNext]_vars

\* ------------------------------------------------------------- C35
\* C35: every Response Record the processor writes is short enough for the
\* Telegram adapter's splitMessage to return exactly one chunk, the text
\* itself: the call never enters its loop.
ProcessorReplyIsOneChunk ==
    /\ reply.pc = "done" => TextLen(reply.message) <= DefaultMax
    /\ split.pc # "loop"
    /\ split.pc = "returned" => split.chunks = <<reply.message>>

\* a reply longer than Telegram's limit was cut by the processor and has
\* been returned by splitMessage as one chunk
LongReplySentAsOneChunk ==
    /\ split.pc = "returned"
    /\ TextLen(reply.trimmed) > DefaultMax
    /\ Len(split.chunks) = 1
    /\ TextLen(split.chunks[1]) = KeptChars + TextLen(TruncationMarker)

\* ================================ the status route beside the processor
\* The webhook server of src/unnamed/part_001 in the process of the
\* processor with its timer, its faults and its restarts.  An HTTP callback
\* is started by the event loop like a timer callback: only when no
\* callback is running, and execSync keeps the thread for the whole call.

\* the messageId of record f, and a queue directory as its JSON files
IdText(f) == <<[c |-> "#", n |-> f]>>
AsFiles(S) ==
    {[file |-> IdText(f), mtime |-> f,
      data |-> [channel |-> Str(WebText), messageId |-> Str(IdText(f))]]
        : f \in S}

\* GET /webhook/status/:messageId, from the match of the url to sendJson
ServeStatus ==
    /\ hook.status = 0
    /\ CanDispatch(proc)
    /\ \E f \in Ids :
        LET result == GetMessageStatus(AsFiles(incoming), AsFiles(processing),
                          AsFiles({r.messageId : r \in outgoing}), IdText(f))
        IN hook' = [hook EXCEPT !.status = StatusCode(result),
                                !.query = IdText(f),
                                !.result = result.status]
    /\ UNCHANGED <<procVars, reply, adapterState, fleet, split, cli, wa>>

\* the process is killed while execSync waits for the provider, and started
\* again
KillDuringCall ==
    /\ \E a \in Slots : proc[a].pc = "invoke"
    /\ Crash

\* the processor's steps; the response of a request is on its way before
\* any other callback runs
ServeStep ==
    /\ hook.status = 0
    /\ NextNoCrash \/ KillDuringCall

ServeNext ==
    \/ ServeStep
    \/ ServeStatus
    \/ Respond

ServeSpec == Init /\ [][ServeNext]_vars

\* ------------------------------------------------------------- C36
\* C36: the webhook server answers no request while an invocation is in
\* flight, and a status query answers 'processing' only for a record that a
\* kill or a failed requeue left in processing, held by no running
\* processMessage.
ProcessingOnlyForStranded ==
    hook.status # 0 =>
        /\ \A a \in Slots : proc[a].pc = "idle"
        /\ \A f \in Ids :
              (hook.query = IdText(f) /\ hook.result = "processing") =>
                  /\ Stranded(f)
                  /\ f \in orphans \/ faults >= 2

\* a status query has answered 'processing' for a record the kill of the
\* processor left behind, and 'queued' is what it answers for the other
ProcessingAnsweredForOrphan ==
    /\ hook.result = "processing"
    /\ \E f \in Ids : hook.query = IdText(f) /\ f \in orphans
    /\ incoming # {}

\* ==================================== caller-supplied channel strings
\* POST /webhook/message with channel strings of the caller's choosing, the
\* processor answering the records, and the Telegram adapter scanning
\* outgoing.
TelegramXText == Concat(TelegramText, Concat(Underscore, Chars(<<"x">>)))

ChannelBodies ==
    [channel : {Str(WebText), Str(TelegramText), Str(TelegramXText)},
     sender : {Str(Chars(<<"b", "o", "b">>))},
     message : {Str(Chars(<<"h", "i">>))},
     messageId : {Absent, Str(Chars(<<"m", "1">>))}]
ChannelRequests == [json : {TRUE}, body : ChannelBodies]

ChannelPost ==
    /\ hook.status = 0
    /\ \E req \in ChannelRequests : PostMessage(req)

ChannelNext ==
    \/ ChannelPost
    \/ Respond
    \/ ProcessRecord
    \/ ConsumeResponse

ChannelSpec == WebhookInit /\ [][ChannelNext]_vars

\* ------------------------------------------------------------- C38
\* C38: the Telegram adapter reads, delivers or removes no Response Record
\* of a webhook message whose channel string is not exactly 'telegram': what
\* it consumes has its own channel in the channel field.
AdapterConsumesOwnChannelOnly ==
    \A d \in hook.scanned : d.channel = Str(TelegramText)

\* ================================== the WhatsApp adapter's readiness flag
\* The WhatsApp client process (queue-processor.ts 315-601) and the files
\* whatsapp_ready and whatsapp_qr.txt of .tinyclaw/channels, over several
\* runs of the process.  The library emits qr while it waits for the
\* pairing, then auth_failure or ready, and disconnected once the client was
\* ready; the handler of a signal gives the thread back at its await.
MaxStarts == 3      \* starts of the WhatsApp adapter in one run
Signals == {"SIGINT", "SIGTERM"}

WaFrame == UNCHANGED <<procVars, reply, adapterState, hook, fleet, split, cli>>

\* tinyclaw.sh start: node dist/whatsapp-client.js, client.initialize()
WaStart ==
    /\ wa.pc = "down"
    /\ wa.starts < MaxStarts
    /\ wa' = [wa EXCEPT !.pc = "starting", !.loading = TRUE, !.starts = @ + 1]
    /\ WaFrame

\* client.on('qr'): the QR code is written to whatsapp_qr.txt
WaQr ==
    /\ wa.pc = "starting"
    /\ wa.loading
    /\ ~wa.qr
    /\ wa' = [wa EXCEPT !.qr = TRUE]
    /\ WaFrame

\* client.on('ready'): fs.writeFileSync(readyFile, ...)
WaReady ==
    /\ wa.loading
    /\ wa.pc \in {"starting", "closing"}
    /\ wa' = [wa EXCEPT !.ready = TRUE, !.loading = FALSE,
                        !.pc = IF @ = "starting" THEN "ready" ELSE @]
    /\ WaFrame

\* client.on('auth_failure'): process.exit(1)
WaAuthFailure ==
    /\ wa.pc = "starting"
    /\ wa.loading
    /\ wa' = [wa EXCEPT !.pc = "down", !.loading = FALSE,
                        !.last = "auth_failure"]
    /\ WaFrame

\* client.on('disconnected'): the marker is removed, the process stays
WaDisconnected ==
    /\ wa.pc = "ready"
    /\ wa' = [wa EXCEPT !.pc = "offline", !.ready = FALSE]
    /\ WaFrame

\* process.on('SIGINT' / 'SIGTERM') up to `await client.destroy()`
WaSignal(sig) ==
    /\ wa.pc \in {"starting", "ready", "offline"}
    /\ wa' = [wa EXCEPT !.pc = "closing", !.ready = FALSE, !.last = sig]
    /\ WaFrame

\* client.destroy() resolves: process.exit(0)
WaExit ==
    /\ wa.pc = "closing"
    /\ wa' = [wa EXCEPT !.pc = "down", !.loading = FALSE]
    /\ WaFrame

\* the process ends with no handler run: tmux kill-session of
\* `tinyclaw.sh stop` hangs up the pane, or SIGKILL
WaKill ==
    /\ wa.pc # "down"
    /\ wa.kills < MaxCrashes
    /\ wa' = [wa EXCEPT !.pc = "down", !.loading = FALSE, !.kills = @ + 1,
                        !.last = "kill"]
    /\ WaFrame

WaNext ==
    \/ WaStart
    \/ WaQr
    \/ WaReady
    \/ WaAuthFailure
    \/ WaDisconnected
    \/ \E sig \in Signals : WaSignal(sig)
    \/ WaExit
    \/ WaKill

WhatsAppSpec == Init /\ [][WaNext]_vars

\* ------------------------------------------------------------- C40
\* C40: the readiness marker is there only while the client is connected:
\* 'ready' creates it, and it is absent after a disconnect and after the
\* process has ended on SIGINT, on SIGTERM or on an authentication failure.
\* Stated for the runs in which the process was never killed, and leaving
\* aside the instants between a signal and the end of the process.
ReadyMarkerOnlyWhileConnected ==
    wa.kills = 0 =>
        /\ wa.pc = "ready" => wa.ready
        /\ wa.ready => wa.pc \in {"ready", "closing"}

====
